---- MODULE Spec2Model ----
(***************************************************************************)
(* Verification model of the Brick agent (src/brick_agent.py and the       *)
(* collaborators of src/brick_utils.py it calls): the think-act-observe    *)
(* loop of BrickAgent.run, the session state AgentState, the action        *)
(* executor BrickAgent.execute_action and the query repair pass            *)
(* BrickAgent._validate_and_fix_sparql.                                    *)
(*                                                                         *)
(* Texts that the code inspects character by character (SPARQL queries)    *)
(* are sequences of one-character strings.  Optional values are sequences  *)
(* of length at most one: << >> is None, << v >> is the value v.           *)
(***************************************************************************)
EXTENDS Integers, Sequences, FiniteSets, TLC

VARIABLES
    graph,              \* BrickGraph._graph: "none" before initialize(), "loaded" after
    CHAINLITE_AVAILABLE,\* module flag of brick_agent.py: FALSE = mock mode
    llm,                \* behaviour of the external prediction service in this session
    pc,                 \* position of BrickAgent.run: "idle", "loop", "done", "raised"
    actions,            \* AgentState.actions
    generated_sparqls,  \* AgentState.generated_sparqls
    final_sparql,       \* AgentState.final_sparql (optional)
    controllerCalls,    \* number of calls of BrickAgent.controller made by run()
    executeCalls,       \* number of calls of BrickAgent.execute_action made by run()
    proposed,           \* the action the controller returned in the last iteration (optional)
    flagged,            \* what is_duplicate_action answered for it
    surprises,          \* off-routine events so far (bounded by MaxSurprises)
    consulted,          \* the last call of the prediction service: what it was given
                        \* and what it answered (optional; None in mock mode)
    happened,           \* what the collaborators did in the last call of
                        \* execute_action (optional)
    \* BrickAction objects built and compared outside a session (SpecAction)
    hpc,                \* "off", "args", "built", "executed", "compared"
    reqs,               \* the constructor arguments of two actions
    objs,               \* the two objects built from them (each optional)
    verdict,            \* objs[1] == objs[2] (optional)
    \* _validate_and_fix_sparql applied to a query text, twice (SpecRepair)
    rep,
    \* a reply of the prediction service parsed by the controller, and
    \* _extract_balanced_parens applied to a text (SpecParse)
    par,
    \* a rendering computed outside a session (SpecRender): BrickAction.to_string,
    \* AgentState.get_action_history or BrickSparqlQuery.results_as_table
    ren,
    \* the AgentState of a second call of run() on the same agent (SpecTwo), or
    \* the BrickGraph objects behind two handles (SpecGraphs)
    other

pure == <<rep, par, ren>>
harness == <<hpc, reqs, objs, verdict, rep, par, ren, other>>

vars == <<graph, CHAINLITE_AVAILABLE, llm, pc, actions, generated_sparqls,
          final_sparql, controllerCalls, executeCalls, proposed, flagged, surprises,
          consulted, happened, hpc, reqs, objs, verdict, rep, par, ren, other>>

-----------------------------------------------------------------------------
(* Characters and the character classes of Python's re module.             *)

LowerLetters == <<"a","b","c","d","e","f","g","h","i","j","k","l","m",
                  "n","o","p","q","r","s","t","u","v","w","x","y","z">>
UpperLetters == <<"A","B","C","D","E","F","G","H","I","J","K","L","M",
                  "N","O","P","Q","R","S","T","U","V","W","X","Y","Z">>
Digits == {"0","1","2","3","4","5","6","7","8","9"}

Range(f) == { f[i] : i \in DOMAIN f }

\* \s
IsSpace(c) == c \in {" ", "\t", "\n"}
\* \d
IsDigit(c) == c \in Digits
\* \w
WordChars == Range(LowerLetters) \cup Range(UpperLetters) \cup Digits \cup {"_"}
IsWord(c) == c \in WordChars
\* [^\s<>]
IsUriChar(c) == ~IsSpace(c) /\ c \notin {"<", ">"}

\* str.upper() on one character; re.IGNORECASE compares letters by this folding
UpperOf ==
    [c \in Range(LowerLetters) |->
        UpperLetters[CHOOSE i \in DOMAIN LowerLetters : LowerLetters[i] = c]]
ToUpper(c) == IF c \in DOMAIN UpperOf THEN UpperOf[c] ELSE c

\* the slice s[i..j-1] with 1-based i, exclusive j (text[i:j] of Python, shifted)
Slice(s, i, j) == IF j <= i THEN << >> ELSE SubSeq(s, i, j - 1)

\* the literal lit (written in upper case) occurs in s at position i, letters
\* compared case-insensitively
MatchLit(s, i, lit) ==
    /\ i >= 1
    /\ i + Len(lit) - 1 <= Len(s)
    /\ \A k \in 1..Len(lit) : ToUpper(s[i + k - 1]) = lit[k]

\* position after the longest run, starting at i, of characters of a class
RECURSIVE SkipSpace(_, _)
SkipSpace(s, i) == IF i <= Len(s) /\ IsSpace(s[i]) THEN SkipSpace(s, i + 1) ELSE i
RECURSIVE SkipWord(_, _)
SkipWord(s, i) == IF i <= Len(s) /\ IsWord(s[i]) THEN SkipWord(s, i + 1) ELSE i
RECURSIVE SkipDigit(_, _)
SkipDigit(s, i) == IF i <= Len(s) /\ IsDigit(s[i]) THEN SkipDigit(s, i + 1) ELSE i
RECURSIVE SkipUri(_, _)
SkipUri(s, i) == IF i <= Len(s) /\ IsUriChar(s[i]) THEN SkipUri(s, i + 1) ELSE i

\* str.strip()
RECURSIVE StripLeft(_)
StripLeft(s) == IF s # << >> /\ IsSpace(Head(s)) THEN StripLeft(Tail(s)) ELSE s
RECURSIVE StripRight(_)
StripRight(s) ==
    IF s # << >> /\ IsSpace(s[Len(s)]) THEN StripRight(SubSeq(s, 1, Len(s) - 1)) ELSE s
Strip(s) == StripLeft(StripRight(s))

\* "PREFIX" etc. as texts
T_PREFIX == <<"P","R","E","F","I","X">>
T_ORDER == <<"O","R","D","E","R">>
T_BY == <<"B","Y">>
T_DESC == <<"D","E","S","C">>
T_ASC == <<"A","S","C">>
T_LIMIT == <<"L","I","M","I","T">>
T_HTTP == <<"H","T","T","P">>
T_SCHEME_SEP == <<":","/","/">>

NoMatch == [found |-> FALSE, end |-> 0, repl |-> << >>]

-----------------------------------------------------------------------------
(* Fix 0: re.sub(r'PREFIX\s+(\w+):\s+(https?://[^\s<>]+)', r'PREFIX \1: <\2>') *)

\* the match of the pattern that starts exactly at position i, with its replacement
PrefixMatchAt(s, i) ==
    IF ~MatchLit(s, i, T_PREFIX) THEN NoMatch ELSE
    LET n1 == i + 6
        n2 == SkipSpace(s, n1)          \* \s+
        n3 == SkipWord(s, n2)           \* (\w+)
        n4 == n3 + 1                    \* :
        n5 == SkipSpace(s, n4)          \* \s+
        n6 == n5 + 4                    \* http
        n7 == IF n6 <= Len(s) /\ ToUpper(s[n6]) = "S" THEN n6 + 1 ELSE n6   \* s?
        n8 == n7 + 3                    \* ://
        n9 == SkipUri(s, n8)            \* [^\s<>]+
    IN  IF /\ n2 > n1
           /\ n3 > n2
           /\ n3 <= Len(s) /\ s[n3] = ":"
           /\ n5 > n4
           /\ MatchLit(s, n5, T_HTTP)
           /\ MatchLit(s, n7, T_SCHEME_SEP)
           /\ n9 > n8
        THEN [found |-> TRUE, end |-> n9,
              repl |-> T_PREFIX \o <<" ">> \o Slice(s, n2, n3) \o <<":", " ", "<">>
                       \o Slice(s, n5, n9) \o <<">">>]
        ELSE NoMatch

-----------------------------------------------------------------------------
(* Fix 1: re.sub(r'ORDER\s+BY\s+(DESC|ASC)\s*\(\s*\?(\w+)\s*(?!\))',          *)
(*               r'ORDER BY \1(?\2)')                                       *)

\* The tail \?(\w+)\s*(?!\)) from the "?" at position q: the regex engine takes
\* the longest \w+ and the longest \s*, and backtracks (first giving back
\* whitespace, then word characters) until the character after the match is
\* not ")".  Result: <<end of \w+, end of match>>, or <<0, 0>> if no match.
OrderTail(s, q) ==
    LET w0 == q + 1
        w1 == SkipWord(s, w0)
        s1 == SkipSpace(s, w1)
        closes(p) == p <= Len(s) /\ s[p] = ")"
    IN  IF ~(q <= Len(s) /\ s[q] = "?") \/ w1 = w0 THEN <<0, 0>>
        ELSE IF ~closes(s1) THEN <<w1, s1>>
        ELSE IF s1 > w1 THEN <<w1, s1 - 1>>
        ELSE IF w1 - 1 > w0 THEN <<w1 - 1, w1 - 1>>
        ELSE <<0, 0>>

OrderMatchAt(s, i) ==
    IF ~MatchLit(s, i, T_ORDER) THEN NoMatch ELSE
    LET n1 == i + 5
        n2 == SkipSpace(s, n1)          \* \s+
        n3 == n2 + 2                    \* BY
        n4 == SkipSpace(s, n3)          \* \s+
        isDesc == MatchLit(s, n4, T_DESC)
        isAsc == MatchLit(s, n4, T_ASC)
        n5 == IF isDesc THEN n4 + 4 ELSE n4 + 3     \* (DESC|ASC)
        n6 == SkipSpace(s, n5)          \* \s*
        n7 == n6 + 1                    \* \(
        n8 == SkipSpace(s, n7)          \* \s*
        tail == OrderTail(s, n8)
    IN  IF /\ n2 > n1
           /\ MatchLit(s, n2, T_BY)
           /\ n4 > n3
           /\ (isDesc \/ isAsc)
           /\ n6 <= Len(s) /\ s[n6] = "("
           /\ tail[2] # 0
        THEN [found |-> TRUE, end |-> tail[2],
              repl |-> T_ORDER \o <<" ">> \o T_BY \o <<" ">> \o Slice(s, n4, n5)
                       \o <<"(", "?">> \o Slice(s, n8 + 1, tail[1]) \o <<")">>]
        ELSE NoMatch

-----------------------------------------------------------------------------
(* re.sub: leftmost matches, left to right, never overlapping; the text     *)
(* between matches is copied.                                               *)

\* position of the leftmost match at or after i, 0 if there is none
MinOrZero(S) == IF S = {} THEN 0 ELSE CHOOSE x \in S : \A y \in S : x <= y

NextPrefixMatch(s, i) ==
    MinOrZero({ j \in i..Len(s) : MatchLit(s, j, T_PREFIX) /\ PrefixMatchAt(s, j).found })

RECURSIVE SubPrefix(_, _)
SubPrefix(s, i) ==
    LET j == NextPrefixMatch(s, i)
    IN  IF j = 0 THEN Slice(s, i, Len(s) + 1)
        ELSE Slice(s, i, j) \o PrefixMatchAt(s, j).repl \o SubPrefix(s, PrefixMatchAt(s, j).end)

NextOrderMatch(s, i) ==
    MinOrZero({ j \in i..Len(s) : MatchLit(s, j, T_ORDER) /\ OrderMatchAt(s, j).found })

SubOrderNothing(s, i) == s
RECURSIVE SubOrder(_, _)
SubOrder(s, i) ==
    LET j == NextOrderMatch(s, i)
    IN  IF j = 0 THEN Slice(s, i, Len(s) + 1)
        ELSE Slice(s, i, j) \o OrderMatchAt(s, j).repl \o SubOrder(s, OrderMatchAt(s, j).end)

\* re.search(r'ORDER\s+BY\s+DESC', s, re.IGNORECASE)
NeverDesc(s) == FALSE
HasOrderByDesc(s) ==
    \E i \in 1..Len(s) :
        /\ MatchLit(s, i, T_ORDER)
        /\ SkipSpace(s, i + 5) > i + 5
        /\ MatchLit(s, SkipSpace(s, i + 5), T_BY)
        /\ SkipSpace(s, SkipSpace(s, i + 5) + 2) > SkipSpace(s, i + 5) + 2
        /\ MatchLit(s, SkipSpace(s, SkipSpace(s, i + 5) + 2), T_DESC)

\* re.search(r'LIMIT\s+\d+', s, re.IGNORECASE)
AlwaysLimited(s) == TRUE
HasLimit(s) ==
    \E i \in 1..Len(s) :
        /\ MatchLit(s, i, T_LIMIT)
        /\ SkipSpace(s, i + 5) > i + 5
        /\ SkipDigit(s, SkipSpace(s, i + 5)) > SkipSpace(s, i + 5)

T_LIMIT_1 == <<" ","L","I","M","I","T"," ","1">>
T_LIMIT_10 == <<" ","L","I","M","I","T"," ","1","0">>

\* Fix 2 and Fix 3 that both look at the text as it was after Fix 1
AddLimitsWithoutLookingAgain(fixed) ==
    (IF HasOrderByDesc(fixed) /\ ~HasLimit(fixed) THEN fixed \o T_LIMIT_1 ELSE fixed)
    \o (IF ~HasLimit(fixed) THEN T_LIMIT_10 ELSE << >>)
\* Fix 2 (lines 325-329) and Fix 3 (lines 331-334), applied to the text after Fix 1
AddLimits(fixed) ==
    LET f2 == IF HasOrderByDesc(fixed) /\ ~HasLimit(fixed)
              THEN fixed \o T_LIMIT_1 ELSE fixed
    IN  IF ~HasLimit(f2) THEN f2 \o T_LIMIT_10 ELSE f2

\* BrickAgent._validate_and_fix_sparql
validate_and_fix_sparql(sparql) ==
    AddLimits(SubOrder(SubPrefix(Strip(sparql), 1), 1))

-----------------------------------------------------------------------------
(* Optional values, texts used as arguments.                                *)

None == << >>
Some(v) == <<v>>

\* "temperature"
A_TEMPERATURE ==
    <<"t","e","m","p","e","r","a","t","u","r","e">>
\* "Temperature"
A_TEMPERATURE_CAP ==
    <<"T","e","m","p","e","r","a","t","u","r","e">>
\* "RM_TEMP"
A_RM_TEMP ==
    <<"R","M","_","T","E","M","P">>
\* "hasObservation"
A_HAS_OBSERVATION ==
    <<"h","a","s","O","b","s","e","r","v","a","t","i","o","n">>
\* "SELECT ?value WHERE { bldg:RM_TEMP ref:hasObservation ?obs . ?obs ref:hasValue ?value } LIMIT 10"
Q_MOCK ==
    <<"S","E","L","E","C","T"," ","?","v","a","l","u","e"," ","W","H","E",
      "R","E"," ","{"," ","b","l","d","g",":","R","M","_","T","E","M","P",
      " ","r","e","f",":","h","a","s","O","b","s","e","r","v","a","t","i",
      "o","n"," ","?","o","b","s"," ","."," ","?","o","b","s"," ","r","e",
      "f",":","h","a","s","V","a","l","u","e"," ","?","v","a","l","u","e",
      " ","}"," ","L","I","M","I","T"," ","1","0">>
\* "SELECT ?v WHERE { ?s ?p ?v } ORDER BY DESC(?v)"
Q_LATEST ==
    <<"S","E","L","E","C","T"," ","?","v"," ","W","H","E","R","E"," ","{",
      " ","?","s"," ","?","p"," ","?","v"," ","}"," ","O","R","D","E","R",
      " ","B","Y"," ","D","E","S","C","(","?","v",")">>
\* "SELECT ?v WHERE { ?s ?p ?v }"
Q_ALL ==
    <<"S","E","L","E","C","T"," ","?","v"," ","W","H","E","R","E"," ","{",
      " ","?","s"," ","?","p"," ","?","v"," ","}">>

\* _validate_and_fix_sparql on the query texts the decision-makers of this model
\* propose, computed once (the function is pure)
QueryTexts == {Q_MOCK, Q_LATEST, Q_ALL}
RepairTable == [q \in QueryTexts |-> validate_and_fix_sparql(q)]
Unrepaired(q) == q
repaired(q) == IF q \in QueryTexts THEN RepairTable[q] ELSE validate_and_fix_sparql(q)

-----------------------------------------------------------------------------
(* BrickAction (src/brick_agent.py, lines 42-82).                           *)

POSSIBLE_ACTIONS ==
    {"search_brick", "get_brick_entity", "get_property_examples", "execute_sparql", "stop"}

\* __post_init__ returns normally (does not raise ValueError)
PostInitAcceptsAnything(action_name) == TRUE
post_init_accepts(action_name) == action_name \in POSSIBLE_ACTIONS

\* the dataclass fields of a freshly built action
ActionRecord(thought, action_name, action_argument) ==
    [thought |-> thought, action_name |-> action_name,
     action_argument |-> action_argument,
     observation |-> None, observation_raw |-> None]

\* BrickAction(thought=..., action_name=..., action_argument=...):
\* Some(action), or None when __post_init__ raises ValueError
BrickAction(thought, action_name, action_argument) ==
    IF post_init_accepts(action_name)
    THEN Some(ActionRecord(thought, action_name, action_argument))
    ELSE None

\* BrickAction.__eq__ between two BrickAction objects
EqIgnoringCase(a, b) ==
    /\ a.action_name = b.action_name
    /\ Len(a.action_argument) = Len(b.action_argument)
    /\ \A i \in 1..Len(a.action_argument) :
          ToUpper(a.action_argument[i]) = ToUpper(b.action_argument[i])
EqWholeRecord(a, b) == a = b
BrickAction_eq(a, b) ==
    /\ a.action_name = b.action_name
    /\ a.action_argument = b.action_argument

\* to_string that ignores include_observation
ToStringAlwaysObservation(action, include_observation) ==
    << [label |-> "Thought: ", text |-> <<action.thought>>],
       [label |-> "Action: ", text |-> <<action.action_name, action.action_argument>>] >>
    \o (IF action.observation # None
        THEN << [label |-> "Observation: ", text |-> action.observation] >>
        ELSE << >>)

\* BrickAction.to_string (lines 66-72): the lines of the rendering, each with
\* its label; the observation line is there only if asked for and not empty
to_string(action, include_observation) ==
    << [label |-> "Thought: ", text |-> <<action.thought>>],
       [label |-> "Action: ", text |-> <<action.action_name, action.action_argument>>] >>
    \o (IF include_observation /\ action.observation # None
        THEN << [label |-> "Observation: ", text |-> action.observation] >>
        ELSE << >>)

-----------------------------------------------------------------------------
(* BrickSparqlQuery (lines 85-127) and execute_sparql (brick_utils.py).     *)

\* SparqlExecutionStatus values
SUCCESS == "success"
EMPTY_RESULT == "empty_result"
SYNTAX_ERROR == "syntax_error"
TIMED_OUT == "timed_out"
OTHER_ERROR == "other_error"

\* rows of graph.query whose variables are all unbound give an empty row_dict
\* and are dropped (lines 160-167)
BoundRows(rows) == SelectSeq(rows, LAMBDA r : r # "unbound")

\* the status chosen by the except branch from the lower-cased message
\* (lines 176-182); error is what the message of the exception contains
ErrorStatus(error) ==
    IF error \in {"syntax", "parse"} THEN SYNTAX_ERROR
    ELSE IF error = "timeout" THEN TIMED_OUT
    ELSE OTHER_ERROR

\* execute_sparql that reports success whenever graph.query returns
ExecuteSparqlSuccessWithoutRows(query, g, w) ==
    IF g = "none" THEN << << >>, ErrorStatus("not initialized") >>
    ELSE IF w.error # "none" THEN << << >>, ErrorStatus(w.error) >>
    ELSE << BoundRows(w.items), SUCCESS >>

\* execute_sparql(query, return_status=True): <<result_list, status>>.
\* g is BrickGraph._graph; w is what graph.query does with the query.
execute_sparql(query, g, w) ==
    IF g = "none" THEN << << >>, ErrorStatus("not initialized") >>   \* get_graph raises
    ELSE IF w.error # "none" THEN << << >>, ErrorStatus(w.error) >>
    ELSE IF BoundRows(w.items) # << >> THEN << BoundRows(w.items), SUCCESS >>
    ELSE << << >>, EMPTY_RESULT >>

\* BrickSparqlQuery(sparql=...) after execute() (lines 92-97)
WithResult(sparql, r) ==
    [sparql |-> sparql, execution_result |-> r[1], execution_status |-> r[2]]
ExecutedQuery(sparql, g, w) == WithResult(sparql, execute_sparql(sparql, g, w))

\* BrickSparqlQuery.has_results
has_results(q) == q.execution_result # << >>

MAX_ROWS == 10

\* DataFrame.to_string(index=False, header=header) of pandas, one segment per
\* line: the header line and the rows; a frame without rows is rendered as its
\* description, whatever header says
df_to_string(rows, header) ==
    IF rows = << >> THEN <<"Empty DataFrame", "Columns: [...]", "Index: []">>
    ELSE (IF header THEN <<"header">> ELSE << >>) \o rows

\* BrickSparqlQuery.results_as_table: the rendering, one segment per line
results_as_table(q, max_rows) ==
    LET df == q.execution_result
        half == max_rows \div 2
        top == SubSeq(df, 1, half)                                  \* df.head(half)
        bottom == SubSeq(df, Len(df) - (max_rows - half) + 1, Len(df))  \* df.tail(...)
    IN  IF q.execution_result = << >> THEN <<"No results">>
        ELSE IF Len(df) > max_rows
        THEN df_to_string(top, TRUE)
             \o <<"... (" \o ToString(Len(df) - max_rows) \o " rows omitted) ...">>
             \o df_to_string(bottom, FALSE)
        ELSE df_to_string(df, TRUE)

-----------------------------------------------------------------------------
(* What the collaborators do in one call of execute_action.                 *)
(*   fail  : the statement of the dispatched branch that raises, "none" if  *)
(*           none does: "collab" (search_brick, get_brick_entity,           *)
(*           get_property_examples), "repair" (_validate_and_fix_sparql),   *)
(*           "execute" (BrickSparqlQuery.execute), "format" (the formatter  *)
(*           of the observation)                                            *)
(*   exc   : the class of the exception raised there                        *)
(*   items : the list the collaborator returns (hits, properties, examples, *)
(*           or the rows of graph.query)                                    *)
(*   error : what the message of the exception raised by graph.query        *)
(*           contains, "none" if it returns                                 *)

Outcome(fail, exc, items, error) ==
    [fail |-> fail, exc |-> exc, items |-> items, error |-> error]

NominalLookup == Outcome("none", "none", <<"item1", "item2">>, "none")
NominalQuery == Outcome("none", "none", <<"row1", "row2">>, "none")
NoCollaborator == Outcome("none", "none", << >>, "none")

\* search_brick, get_brick_entity, get_property_examples: each starts with
\* BrickGraph().get_graph(), which raises RuntimeError before initialize()
LookupOutcomes(g) ==
    IF g = "none" THEN {Outcome("collab", "RuntimeError", << >>, "none")}
    ELSE {NominalLookup,
          Outcome("none", "none", << >>, "none"),
          Outcome("collab", "Exception", << >>, "none"),
          Outcome("format", "TypeError", <<"item1">>, "none")}

\* the execute_sparql branch; execute_sparql itself catches what graph.query
\* and get_graph raise, so BrickSparqlQuery.execute raises only from its handler
QueryOutcomes(g) ==
    IF g = "none"
    THEN {Outcome("none", "none", << >>, "none"),
          Outcome("repair", "UnicodeEncodeError", << >>, "none")}
    ELSE {NominalQuery,
          Outcome("none", "none", <<"unbound">>, "none"),
          Outcome("none", "none", << >>, "syntax"),
          Outcome("none", "none", << >>, "timeout"),
          Outcome("none", "none", << >>, "other"),
          Outcome("repair", "UnicodeEncodeError", << >>, "none"),
          Outcome("execute", "UnicodeEncodeError", << >>, "other"),
          Outcome("format", "TypeError", <<"row1", "row2">>, "none")}

Outcomes(action_name, g) ==
    IF action_name = "execute_sparql" THEN QueryOutcomes(g)
    ELSE IF action_name = "stop" THEN {NoCollaborator}
    ELSE LookupOutcomes(g)

\* what can happen to this action: _validate_and_fix_sparql prints, and so can
\* raise, only if it changed the text (lines 329, 334, 336-339)
CanHappen(action, w) ==
    w.fail = "repair" => repaired(action.action_argument) # action.action_argument
OutcomesOf(action, g) == { w \in Outcomes(action.action_name, g) : CanHappen(action, w) }

\* the outcome that costs no surprise
IsNominal(action_name, w, g) ==
    IF g = "none" THEN w.fail \in {"none", "collab"}
    ELSE IF action_name = "execute_sparql" THEN w = NominalQuery
    ELSE IF action_name = "stop" THEN w = NoCollaborator
    ELSE w = NominalLookup

-----------------------------------------------------------------------------
(* Observation texts: sequences of segments (lines).                        *)

\* format_search_results (brick_utils.py, lines 379-403)
format_search_results(results) ==
    IF results = << >> THEN <<"No results found.">> ELSE <<"hits">> \o results

\* format_entity_info (brick_utils.py, lines 406-430)
format_entity_info(entity_info) == <<"Entity:", "Types:", "Properties:">> \o entity_info

\* lines 461-465
format_examples(examples) ==
    IF examples # << >> THEN <<"examples">> \o examples ELSE <<"No examples found">>

Payload(kind, items, query) == [kind |-> kind, items |-> items, query |-> query]

-----------------------------------------------------------------------------
(* BrickAgent.execute_action (lines 437-493).                               *)

\* "except Exception as e": the classes the handler of line 490 catches
CatchesOnlyRuntimeError(exc) == exc = "RuntimeError"
handler_catches(exc) ==
    exc \in {"Exception", "RuntimeError", "ValueError", "TypeError", "UnicodeEncodeError"}

\* The body of the try block gives: the action as mutated so far, the
\* BrickSparqlQuery the branch returns (line 482) if it gets there, and the
\* exception that cut it short (None if the branch ran to its end).
Cut(a, w) == [action |-> a, sparql_query |-> None, exc |-> Some(w.exc)]
Ran(a, q) == [action |-> a, sparql_query |-> q, exc |-> None]

\* lines 448-465: a1 is the action with observation_raw assigned
LookupBranchYieldsQuery(a1, text, w) ==
    IF w.fail = "format" THEN Cut(a1, w)
    ELSE Ran([a1 EXCEPT !.observation = text],
             Some(WithResult(a1.action_argument, << << >>, EMPTY_RESULT >>)))
LookupBranch(a1, text, w) ==
    IF w.fail = "format" THEN Cut(a1, w)
    ELSE Ran([a1 EXCEPT !.observation = text], None)

\* lines 474-482: sparql_query is the query after execute()
QueryBranch(action, sparql_query, w) ==
    IF has_results(sparql_query) /\ w.fail = "format"
    THEN Cut([action EXCEPT
                !.observation_raw = Some(Payload("sparql_query", << >>, Some(sparql_query)))], w)
    ELSE Ran([action EXCEPT
                !.observation_raw = Some(Payload("sparql_query", << >>, Some(sparql_query))),
                !.observation =
                    IF has_results(sparql_query)
                    THEN results_as_table(sparql_query, MAX_ROWS)
                    ELSE <<"Query returned no results. Status: ",
                           sparql_query.execution_status>>],
             Some(sparql_query))

TryBody(action, g, w) ==
    CASE action.action_name = "search_brick" ->
            IF w.fail = "collab" THEN Cut(action, w)
            ELSE LookupBranch(
                    [action EXCEPT
                       !.observation_raw = Some(Payload("search_results", w.items, None))],
                    format_search_results(w.items), w)
      [] action.action_name = "get_brick_entity" ->
            IF w.fail = "collab" THEN Cut(action, w)
            ELSE LookupBranch(
                    [action EXCEPT
                       !.observation_raw = Some(Payload("entity_info", w.items, None))],
                    format_entity_info(w.items), w)
      [] action.action_name = "get_property_examples" ->
            IF w.fail = "collab" THEN Cut(action, w)
            ELSE LookupBranch(
                    [action EXCEPT
                       !.observation_raw = Some(Payload("examples", w.items, None))],
                    format_examples(w.items), w)
      [] action.action_name = "execute_sparql" ->
            IF w.fail \in {"repair", "execute"} THEN Cut(action, w)
            ELSE QueryBranch(action,
                             ExecutedQuery(repaired(action.action_argument), g, w), w)
      [] action.action_name = "stop" ->
            Ran([action EXCEPT !.observation = <<"Stopping execution">>], None)
      [] OTHER ->
            Ran([action EXCEPT !.observation = <<"Unknown action: ", action.action_name>>],
                None)

\* a handler that swallows the exception and leaves the action as it is
AfterTrySilent(body) ==
    [action |-> body.action, sparql_query |-> body.sparql_query, raised |-> FALSE]
\* lines 490-493: what execute_action returns for a try body, or that it raised
AfterTry(body) ==
    IF body.exc = None
    THEN [action |-> body.action, sparql_query |-> body.sparql_query, raised |-> FALSE]
    ELSE IF handler_catches(body.exc[1])
    THEN [action |-> [body.action EXCEPT
                         !.observation = <<"Error executing action: ", body.exc[1]>>],
          sparql_query |-> None, raised |-> FALSE]
    ELSE [action |-> body.action, sparql_query |-> None, raised |-> TRUE]

\* execute_action(action)
execute_action(action, g, w) == AfterTry(TryBody(action, g, w))

-----------------------------------------------------------------------------
(* AgentState (lines 130-164).                                              *)

max_iterations == 15
DUPLICATE_WINDOW == 5

\* the Python slice seq[-n:] for n >= 0; seq[-0:] is seq[0:], the whole list
LastN(seq, n) ==
    IF n = 0 THEN seq
    ELSE IF Len(seq) > n THEN SubSeq(seq, Len(seq) - n + 1, Len(seq)) ELSE seq

\* str.join: the separator and the texts it is put between
Join(sep, items) == [sep |-> sep, items |-> items]

LAST_N == 10

\* get_action_history that suppresses no observation
GetActionHistoryUnsuppressed(acts, last_n, include_observation) ==
    LET recent_actions == IF Len(acts) > last_n THEN LastN(acts, last_n) ELSE acts
    IN  Join("\n",
             [i \in 1..Len(recent_actions) |->
                to_string(recent_actions[i], include_observation)])

\* AgentState.get_action_history (lines 139-152)
get_action_history(acts, last_n, include_observation) ==
    LET recent_actions == IF Len(acts) > last_n THEN LastN(acts, last_n) ELSE acts
    IN  Join("\n",
             [i \in 1..Len(recent_actions) |->
                to_string(recent_actions[i],
                          IF /\ (i - 1) < Len(recent_actions) - 2
                             /\ recent_actions[i].action_name
                                   \in {"search_brick", "get_brick_entity"}
                          THEN FALSE
                          ELSE include_observation)])

\* AgentState.is_duplicate_action: action in self.actions[-5:]
IsDuplicateInWholeHistory(acts, action) ==
    \E i \in 1..Len(acts) : BrickAction_eq(action, acts[i])
IsDuplicateOfLastOnly(acts, action) ==
    acts # << >> /\ BrickAction_eq(action, acts[Len(acts)])
NeverDuplicate(acts, action) == FALSE
is_duplicate_action(acts, action) ==
    LET recent == LastN(acts, DUPLICATE_WINDOW)
    IN  \E i \in 1..Len(recent) : BrickAction_eq(action, recent[i])

\* AgentState.should_stop
ShouldStopPastBudget(acts) ==
    \/ Len(acts) > max_iterations
    \/ acts # << >> /\ acts[Len(acts)].action_name = "stop"
\* should_stop that also gives up after an action that failed
ShouldStopAfterFailure(acts) ==
    \/ Len(acts) >= max_iterations
    \/ acts # << >> /\ acts[Len(acts)].action_name = "stop"
    \/ /\ acts # << >>
       /\ acts[Len(acts)].observation # None
       /\ acts[Len(acts)].observation[1] = "Error executing action: "
ShouldStopOnBudgetOnly(acts) == Len(acts) >= max_iterations
should_stop(acts) ==
    \/ Len(acts) >= max_iterations
    \/ acts # << >> /\ acts[Len(acts)].action_name = "stop"

-----------------------------------------------------------------------------
(* BrickAgent.controller (lines 202-289) and _mock_controller (404-435).    *)

\* What the prediction service answers in one call: ok = FALSE stands for a
\* transport error or a text the controller cannot parse (lines 276, 284);
\* otherwise the thought, the action name and the argument parsed from it.
LLMOutput(ok, thought, action_name, action_argument) ==
    [ok |-> ok, thought |-> thought, action_name |-> action_name,
     action_argument |-> action_argument]

LLMFailure == LLMOutput(FALSE, "", "", << >>)
LLMUnknownKind == LLMOutput(TRUE, "llm thought", "delete_graph", A_RM_TEMP)
LLMStop == LLMOutput(TRUE, "llm thought", "stop", << >>)

\* a decision-maker that explores: six different actions, then the same again
Cycle ==
    << LLMOutput(TRUE, "llm thought", "search_brick", A_TEMPERATURE),
       LLMOutput(TRUE, "llm thought", "get_brick_entity", A_RM_TEMP),
       LLMOutput(TRUE, "llm thought", "get_property_examples", A_HAS_OBSERVATION),
       LLMOutput(TRUE, "llm thought", "execute_sparql", Q_LATEST),
       LLMOutput(TRUE, "llm thought", "search_brick", A_TEMPERATURE_CAP),
       LLMOutput(TRUE, "llm thought", "execute_sparql", Q_ALL) >>

Routine(n) == Cycle[(n % Len(Cycle)) + 1]

\* the answers the service may give when the history holds n actions
LLMChoices(avail, mode, n) ==
    IF ~avail THEN {LLMFailure}            \* mock mode: the service is not called
    ELSE IF mode = "same" THEN {Cycle[1]}
    ELSE {LLMFailure, LLMUnknownKind, LLMStop} \cup Range(Cycle)

LLMIsRoutine(avail, mode, n, out) ==
    ~avail \/ mode = "same" \/ out = Routine(n)

\* a fallback that always starts the script again
MockControllerFromTheTop(acts) ==
    ActionRecord("I need to find sensors related to the question",
                 "search_brick", A_TEMPERATURE)
\* _mock_controller
mock_controller(acts) ==
    LET num_actions == Len(acts)
    IN  IF num_actions = 0
        THEN ActionRecord("I need to find sensors related to the question",
                          "search_brick", A_TEMPERATURE)
        ELSE IF num_actions = 1
        THEN ActionRecord("Let me explore the RM_TEMP sensor to understand its properties",
                          "get_brick_entity", A_RM_TEMP)
        ELSE IF num_actions = 2
        THEN ActionRecord("I'll test a simple query to get temperature values",
                          "execute_sparql", Q_MOCK)
        ELSE ActionRecord("Query works! Ready to finalize", "stop", << >>)

\* action_history_str of the controller (lines 226-229), which goes into the
\* prompt given to the service
action_history_str(acts) ==
    Join("\n\n", [i \in 1..Len(acts) |-> to_string(acts[i], TRUE)])

\* controller that returns what the reply names, without BrickAction's check
ControllerTrustsReply(avail, acts, out) ==
    IF ~avail THEN mock_controller(acts)
    ELSE IF ~out.ok THEN mock_controller(acts)
    ELSE ActionRecord(out.thought, out.action_name, Strip(out.action_argument))

\* controller(state): every failure inside the try block falls back to the mock
controller(avail, acts, out) ==
    IF ~avail THEN mock_controller(acts)
    ELSE IF ~out.ok THEN mock_controller(acts)
    ELSE LET made == BrickAction(out.thought, out.action_name, Strip(out.action_argument))
         IN  IF made = None THEN mock_controller(acts) ELSE made[1]

-----------------------------------------------------------------------------
(* The controller's parsing of the reply (lines 258-284) and                *)
(* _extract_balanced_parens (lines 343-367).                                *)

T_THOUGHT == <<"T","h","o","u","g","h","t",":">>
T_ACTION == <<"A","c","t","i","o","n",":">>

\* the text lit stands in s at position i (case-sensitive)
IsAt(s, i, lit) ==
    /\ i >= 1
    /\ i + Len(lit) - 1 <= Len(s)
    /\ SubSeq(s, i, i + Len(lit) - 1) = lit

\* the for loop of _extract_balanced_parens at the character of index i, with
\* the depth counted so far
RECURSIVE ScanParens(_, _, _)
ScanParens(text, i, depth) ==
    IF i > Len(text) THEN None                       \* unbalanced
    ELSE IF text[i] = "(" THEN ScanParens(text, i + 1, depth + 1)
    ELSE IF text[i] = ")"
         THEN IF depth - 1 = 0 THEN Some(Slice(text, 2, i))
              ELSE ScanParens(text, i + 1, depth - 1)
    ELSE ScanParens(text, i + 1, depth)

\* _extract_balanced_parens(text): Some(content) or None
ExtractToFirstClose(text) ==
    IF text = << >> \/ text[1] # "(" THEN None
    ELSE IF \E i \in 1..Len(text) : text[i] = ")"
    THEN Some(Slice(text, 2, CHOOSE i \in 1..Len(text) :
                                /\ text[i] = ")"
                                /\ \A j \in 1..(i - 1) : text[j] # ")"))
    ELSE None
extract_balanced_parens(text) ==
    IF text = << >> \/ text[1] # "(" THEN None ELSE ScanParens(text, 1, 0)

\* re.search(r'Thought:\s*(.+?)(?=Action:|$)', text, re.DOTALL): group 1, if the
\* pattern matches.  It matches at the first "Thought:" that has a character
\* after it; the group starts after the blanks (on the last blank if nothing
\* but blanks follows) and runs to the next "Action:" or to the end of the text
\* (a final newline, which "$" leaves out, is removed by strip() anyway).
thought_match(text) ==
    LET i == MinOrZero({ j \in 1..Len(text) :
                           IsAt(text, j, T_THOUGHT) /\ j + 8 <= Len(text) })
        b == SkipSpace(text, i + 8)
        start == IF b > Len(text) THEN Len(text) ELSE b
        end == MinOrZero({ q \in (start + 1)..Len(text) : IsAt(text, q, T_ACTION) })
    IN  IF i = 0 THEN None
        ELSE Some(Slice(text, start, IF end = 0 THEN Len(text) + 1 ELSE end))

\* re.search(r'Action:\s*(\w+)\s*\(', text) starting exactly at position i:
\* the name and the position of the "(" (action_name_match.end() - 1)
ActionMatchAt(text, i) ==
    LET n1 == SkipSpace(text, i + 7)
        n2 == SkipWord(text, n1)
        n3 == SkipSpace(text, n2)
    IN  IF IsAt(text, i, T_ACTION) /\ n2 > n1 /\ n3 <= Len(text) /\ text[n3] = "("
        THEN [found |-> TRUE, name |-> Slice(text, n1, n2), open |-> n3]
        ELSE [found |-> FALSE, name |-> << >>, open |-> 0]
action_name_match(text) ==
    ActionMatchAt(text, MinOrZero({ j \in 1..Len(text) : ActionMatchAt(text, j).found }))

\* action names as the texts the service writes
N_SEARCH_BRICK == <<"s","e","a","r","c","h","_","b","r","i","c","k">>
N_GET_BRICK_ENTITY == <<"g","e","t","_","b","r","i","c","k","_","e","n","t","i","t","y">>
N_GET_PROPERTY_EXAMPLES ==
    <<"g","e","t","_","p","r","o","p","e","r","t","y","_","e","x","a","m","p","l",
      "e","s">>
N_EXECUTE_SPARQL == <<"e","x","e","c","u","t","e","_","s","p","a","r","q","l">>
N_STOP == <<"s","t","o","p">>
N_DELETE_GRAPH == <<"d","e","l","e","t","e","_","g","r","a","p","h">>
\* the str object of a name given by its characters
AsString(name) ==
    CASE name = N_SEARCH_BRICK -> "search_brick"
      [] name = N_GET_BRICK_ENTITY -> "get_brick_entity"
      [] name = N_GET_PROPERTY_EXAMPLES -> "get_property_examples"
      [] name = N_EXECUTE_SPARQL -> "execute_sparql"
      [] name = N_STOP -> "stop"
      [] name = N_DELETE_GRAPH -> "delete_graph"
      [] OTHER -> "other"

\* lines 262-284: what the controller reads in controller_output; a ValueError
\* (lines 276, 284) is the reply LLMFailure
parse_reply(text) ==
    LET tm == thought_match(text)
        am == action_name_match(text)
        argument == extract_balanced_parens(Slice(text, am.open, Len(text) + 1))
    IN  IF tm = None \/ ~am.found THEN LLMFailure
        ELSE IF argument = None THEN LLMFailure
        ELSE LLMOutput(TRUE, Strip(tm[1]), AsString(am.name), argument[1])

-----------------------------------------------------------------------------
(* BrickAgent.run (lines 495-556) and BrickAgent.initialize_graph.          *)

MaxSurprises == 2

\* the values of rep and par while no pure function is being exercised
RepOff == [pc |-> "off"]
ParOff == [pc |-> "off"]
RenOff == [pc |-> "off"]
OtherOff == [pc |-> "off"]

\* a duplicate replaced by a fresh search instead of a stop
DuplicateSearchesAgain == ActionRecord("Detected duplicate action, stopping", "search_brick", << >>)
\* the Stop that replaces a duplicate (lines 523-527)
DuplicateStop == ActionRecord("Detected duplicate action, stopping", "stop", << >>)

Init ==
    /\ graph = "none"
    /\ CHAINLITE_AVAILABLE \in BOOLEAN
    /\ llm \in (IF CHAINLITE_AVAILABLE THEN {"any", "same"} ELSE {"unused"})
    /\ pc = "idle"
    /\ actions = << >>
    /\ generated_sparqls = << >>
    /\ final_sparql = None
    /\ controllerCalls = 0
    /\ executeCalls = 0
    /\ proposed = None
    /\ flagged = FALSE
    /\ surprises = 0
    /\ consulted = None
    /\ happened = None
    /\ hpc = "off"
    /\ reqs = << >>
    /\ objs = << >>
    /\ verdict = None
    /\ rep = RepOff
    /\ par = ParOff
    /\ ren = RenOff
    /\ other = OtherOff

\* BrickGraph.initialize through BrickAgent.initialize_graph, before run()
InitializeGraph ==
    /\ pc = "idle"
    /\ graph = "none"
    /\ graph' = "loaded"
    /\ UNCHANGED <<CHAINLITE_AVAILABLE, llm, pc, actions, generated_sparqls, final_sparql,
                   controllerCalls, executeCalls, proposed, flagged, surprises, consulted, happened, harness>>

\* run() is called: state = AgentState(question=question)
Run ==
    /\ pc = "idle"
    /\ pc' = "loop"
    /\ actions' = << >>
    /\ generated_sparqls' = << >>
    /\ final_sparql' = None
    /\ UNCHANGED <<graph, CHAINLITE_AVAILABLE, llm, controllerCalls, executeCalls,
                   proposed, flagged, surprises, consulted, happened, harness>>

\* storing that puts the action in the place of the last one of the history
StoreOverLast(r) ==
    /\ pc' = "loop"
    /\ actions' = IF actions = << >> THEN <<r.action>>
                  ELSE [actions EXCEPT ![Len(actions)] = r.action]
    /\ generated_sparqls' =
         IF r.sparql_query # None
         THEN Append(generated_sparqls, r.sparql_query[1])
         ELSE generated_sparqls

\* lines 530-537: r is what execute_action did; an exception it lets through
\* ends run()
Store(r) ==
    IF r.raised
    THEN /\ pc' = "raised"
         /\ UNCHANGED <<actions, generated_sparqls>>
    ELSE /\ pc' = "loop"
         /\ actions' = Append(actions, r.action)
         /\ generated_sparqls' =
              IF r.sparql_query # None
              THEN Append(generated_sparqls, r.sparql_query[1])
              ELSE generated_sparqls

\* one iteration of the while loop (lines 513-542)
LoopIteration ==
    /\ pc = "loop"
    /\ ~should_stop(actions)
    /\ \E out \in LLMChoices(CHAINLITE_AVAILABLE, llm, Len(actions)) :
       \E candidate \in {controller(CHAINLITE_AVAILABLE, actions, out)} :
       \E duplicate \in {is_duplicate_action(actions, candidate)} :
       \E action \in {IF duplicate THEN DuplicateStop ELSE candidate} :
       \E w \in OutcomesOf(action, graph) :
       \E cost \in {(IF LLMIsRoutine(CHAINLITE_AVAILABLE, llm, Len(actions), out)
                     THEN 0 ELSE 1)
                    + (IF IsNominal(action.action_name, w, graph) THEN 0 ELSE 1)} :
         /\ surprises + cost <= MaxSurprises
         /\ surprises' = surprises + cost
         /\ controllerCalls' = controllerCalls + 1
         /\ executeCalls' = executeCalls + 1
         /\ proposed' = Some(candidate)
         /\ flagged' = duplicate
         /\ consulted' = (IF CHAINLITE_AVAILABLE
                         THEN Some([context |-> action_history_str(actions), reply |-> out])
                         ELSE None)
         /\ happened' = Some(w)
         /\ \E r \in {execute_action(action, graph, w)} : Store(r)
    /\ UNCHANGED <<graph, CHAINLITE_AVAILABLE, llm, final_sparql, harness>>

\* lines 544-546: the value of state.final_sparql after the loop
FinalOfLastWithResults(sparqls, current) ==
    LET good == SelectSeq(sparqls, has_results)
    IN  IF good # << >> THEN Some(good[Len(good)]) ELSE current
final_of(sparqls, current) ==
    IF sparqls # << >> THEN Some(sparqls[Len(sparqls)]) ELSE current

\* the loop has ended: lines 544-556
LoopExit ==
    /\ pc = "loop"
    /\ should_stop(actions)
    /\ final_sparql' = final_of(generated_sparqls, final_sparql)
    /\ pc' = "done"
    /\ UNCHANGED <<graph, CHAINLITE_AVAILABLE, llm, actions, generated_sparqls,
                   controllerCalls, executeCalls, proposed, flagged, surprises, consulted, happened, harness>>

Next == InitializeGraph \/ Run \/ LoopIteration \/ LoopExit

Spec == Init /\ [][Next]_vars

\* run() is sequential code: once called, it keeps executing its loop
FairSpec == Spec /\ WF_vars(LoopIteration) /\ WF_vars(LoopExit)

-----------------------------------------------------------------------------
(* BrickAction objects on their own: two constructor calls, the execution   *)
(* of the first object, and the comparison objs[1] == objs[2].              *)

Thoughts == {"first thought", "second thought"}
ActionNames == POSSIBLE_ACTIONS \cup {"Search", "SEARCH_BRICK"}
Arguments == {A_TEMPERATURE, A_TEMPERATURE_CAP, << >>}

Requests ==
    { LLMOutput(TRUE, t, n, a) : t \in Thoughts, n \in ActionNames, a \in Arguments }

InitAction ==
    /\ graph \in {"none", "loaded"}
    /\ CHAINLITE_AVAILABLE = FALSE
    /\ llm = "unused"
    /\ pc = "off"
    /\ actions = << >>
    /\ generated_sparqls = << >>
    /\ final_sparql = None
    /\ controllerCalls = 0
    /\ executeCalls = 0
    /\ proposed = None
    /\ flagged = FALSE
    /\ surprises = 0
    /\ consulted = None
    /\ happened = None
    /\ hpc = "args"
    /\ reqs \in Requests \X Requests
    /\ objs = <<None, None>>
    /\ verdict = None
    /\ rep = RepOff
    /\ par = ParOff
    /\ ren = RenOff
    /\ other = OtherOff

session == <<graph, CHAINLITE_AVAILABLE, llm, pc, actions, generated_sparqls,
             final_sparql, controllerCalls, executeCalls, proposed, flagged, surprises,
             consulted, happened>>

\* BrickAction(...) twice
Construct ==
    /\ hpc = "args"
    /\ objs' = [i \in {1, 2} |->
                  BrickAction(reqs[i].thought, reqs[i].action_name, reqs[i].action_argument)]
    /\ hpc' = "built"
    /\ UNCHANGED <<session, reqs, verdict, pure, other>>

\* execute_action on the first object
ExecuteFirst ==
    /\ hpc = "built"
    /\ objs[1] # None
    /\ \E w \in OutcomesOf(objs[1][1], graph) :
         objs' = [objs EXCEPT ![1] = Some(execute_action(objs[1][1], graph, w).action)]
    /\ hpc' = "executed"
    /\ UNCHANGED <<session, reqs, verdict, pure, other>>

\* objs[1] == objs[2]
Compare ==
    /\ hpc \in {"built", "executed"}
    /\ objs[1] # None
    /\ objs[2] # None
    /\ verdict' = Some(BrickAction_eq(objs[1][1], objs[2][1]))
    /\ hpc' = "compared"
    /\ UNCHANGED <<session, reqs, objs, pure, other>>

NextAction == Construct \/ ExecuteFirst \/ Compare

SpecAction == InitAction /\ [][NextAction]_vars

-----------------------------------------------------------------------------
(* _validate_and_fix_sparql on its own: a query text is put together from   *)
(* parts, repaired, and the result repaired again.                          *)

\* "PREFIX ex: http://x.org/a# " and "PREFIX ex: <http://x.org/a#> "
R_PREFIX_BARE ==
    <<"P","R","E","F","I","X"," ","e","x",":"," ","h","t","t","p",":","/","/","x",".","o","r","g","/","a","#"," ">>
R_PREFIX_OK ==
    <<"P","R","E","F","I","X"," ","e","x",":"," ","<","h","t","t","p",":","/","/","x",".","o","r","g","/","a","#",">"," ">>
\* " ORDER BY ", " LIMIT 5", "timestamp"
R_ORDER_BY == <<" ","O","R","D","E","R"," ","B","Y"," ">>
R_LIMIT_5 == <<" ","L","I","M","I","T"," ","5">>
R_TIMESTAMP == <<"t","i","m","e","s","t","a","m","p">>
T_DESC_LOWER == <<"d","e","s","c">>

MaxNameLen == 3

RepairPrefixes == {<< >>, R_PREFIX_BARE, R_PREFIX_OK}
RepairFuncs == {T_DESC, T_ASC, T_DESC_LOWER}
RepairNames == {<<"v">>} \cup { SubSeq(R_TIMESTAMP, 1, n) : n \in 2..MaxNameLen }
\* the call is closed, left open, or closed after a blank
RepairCloses == {<<")">>, << >>, <<" ", ")">>}
\* no limit, " LIMIT 5", " LIMIT 5 LIMIT 5"
RepairTails == {<< >>, R_LIMIT_5, R_LIMIT_5 \o R_LIMIT_5}

RepairText(prefix, func, name, close, tail) ==
    prefix \o Q_ALL
    \o (IF func = << >> THEN << >>
        ELSE R_ORDER_BY \o func \o <<"(", "?">> \o name \o close)
    \o tail

RepairInput(prefix, func, name, close, tail) ==
    [pc |-> "input", prefix |-> prefix, func |-> func, name |-> name, close |-> close,
     tail |-> tail, text |-> RepairText(prefix, func, name, close, tail),
     once |-> None, twice |-> None]

RepairInputs ==
    { RepairInput(prefix, << >>, << >>, << >>, tail) :
        prefix \in RepairPrefixes, tail \in RepairTails }
    \cup
    { RepairInput(x[1], x[2], x[3], x[4], x[5]) :
        x \in RepairPrefixes \X RepairFuncs \X RepairNames \X RepairCloses \X RepairTails }

InitRepair ==
    /\ graph = "none"
    /\ CHAINLITE_AVAILABLE = FALSE
    /\ llm = "unused"
    /\ pc = "off"
    /\ actions = << >>
    /\ generated_sparqls = << >>
    /\ final_sparql = None
    /\ controllerCalls = 0
    /\ executeCalls = 0
    /\ proposed = None
    /\ flagged = FALSE
    /\ surprises = 0
    /\ consulted = None
    /\ happened = None
    /\ hpc = "off"
    /\ reqs = << >>
    /\ objs = << >>
    /\ verdict = None
    /\ rep \in RepairInputs
    /\ par = ParOff
    /\ ren = RenOff
    /\ other = OtherOff

\* corrected_sparql = self._validate_and_fix_sparql(text)
RepairOnce ==
    /\ rep.pc = "input"
    /\ rep' = [rep EXCEPT !.pc = "once", !.once = Some(validate_and_fix_sparql(rep.text))]
    /\ UNCHANGED <<session, hpc, reqs, objs, verdict, par, ren, other>>

\* self._validate_and_fix_sparql(corrected_sparql)
RepairTwice ==
    /\ rep.pc = "once"
    /\ rep' = [rep EXCEPT !.pc = "twice",
                          !.twice = Some(validate_and_fix_sparql(rep.once[1]))]
    /\ UNCHANGED <<session, hpc, reqs, objs, verdict, par, ren, other>>

NextRepair == RepairOnce \/ RepairTwice

SpecRepair == InitRepair /\ [][NextRepair]_vars

-----------------------------------------------------------------------------
(* The parsing on its own: _extract_balanced_parens applied to a text, and  *)
(* a reply parsed by the controller, which then returns an action.          *)

\* "SELECT ?v WHERE { FILTER(?v > 1) }"
E_ARGUMENT ==
    <<"S","E","L","E","C","T"," ","?","v"," ","W","H","E","R","E"," ","{"," ","F",
      "I","L","T","E","R","(","?","v"," ",">"," ","1",")"," ","}">>
\* "(SELECT ?v WHERE { FILTER(?v > 1) }) and more)"
E_ARGUMENT_TEXT ==
    <<"(">> \o E_ARGUMENT \o <<")"," ","a","n","d"," ","m","o","r","e",")">>
\* "Thought: filter\nAction: execute_sparql(SELECT ?v WHERE { FILTER(?v > 1) })"
REPLY_OK ==
    <<"T","h","o","u","g","h","t",":"," ","f","i","l","t","e","r","\n","A","c","t",
      "i","o","n",":"," ","e","x","e","c","u","t","e","_","s","p","a","r","q","l",
      "(">>
    \o E_ARGUMENT \o <<")">>
\* "Action: execute_sparql(SELECT ?v WHERE { FILTER(?v > 1) })"
REPLY_NO_THOUGHT ==
    <<"A","c","t","i","o","n",":"," ","e","x","e","c","u","t","e","_","s","p","a",
      "r","q","l","(">>
    \o E_ARGUMENT \o <<")">>
\* "Thought: filter"
REPLY_NO_ACTION == <<"T","h","o","u","g","h","t",":"," ","f","i","l","t","e","r">>
\* "Thought: t\nAction: search_brick(temperature"
REPLY_UNBALANCED ==
    <<"T","h","o","u","g","h","t",":"," ","t","\n","A","c","t","i","o","n",":"," ",
      "s","e","a","r","c","h","_","b","r","i","c","k","(","t","e","m","p","e","r",
      "a","t","u","r","e">>
\* "Thought: t\nAction: delete_graph(RM_TEMP)"
REPLY_UNKNOWN ==
    <<"T","h","o","u","g","h","t",":"," ","t","\n","A","c","t","i","o","n",":"," ",
      "d","e","l","e","t","e","_","g","r","a","p","h","(","R","M","_","T","E","M",
      "P",")">>
\* "Thought: t\nAction: search_brick ( temperature )\nObservation: x"
REPLY_SPACED ==
    <<"T","h","o","u","g","h","t",":"," ","t","\n","A","c","t","i","o","n",":"," ",
      "s","e","a","r","c","h","_","b","r","i","c","k"," ","("," ","t","e","m","p",
      "e","r","a","t","u","r","e"," ",")","\n","O","b","s","e","r","v","a","t","i",
      "o","n",":"," ","x">>

MaxParenLen == 5
ParenAlphabet == {"(", ")", "a"}
ParenTexts ==
    UNION { [1..n -> ParenAlphabet] : n \in 0..MaxParenLen } \cup {E_ARGUMENT_TEXT}
Replies ==
    {REPLY_OK, REPLY_NO_THOUGHT, REPLY_NO_ACTION, REPLY_UNBALANCED, REPLY_UNKNOWN,
     REPLY_SPACED}

InitParse ==
    /\ graph = "none"
    /\ CHAINLITE_AVAILABLE = TRUE
    /\ llm = "any"
    /\ pc = "off"
    /\ actions = << >>
    /\ generated_sparqls = << >>
    /\ final_sparql = None
    /\ controllerCalls = 0
    /\ executeCalls = 0
    /\ proposed = None
    /\ flagged = FALSE
    /\ surprises = 0
    /\ consulted = None
    /\ happened = None
    /\ hpc = "off"
    /\ reqs = << >>
    /\ objs = << >>
    /\ verdict = None
    /\ rep = RepOff
    /\ par \in { [pc |-> "text", text |-> t, result |-> None] : t \in ParenTexts }
               \cup
               { [pc |-> "reply", text |-> r, out |-> LLMFailure, returned |-> None] :
                   r \in Replies }
    /\ ren = RenOff
    /\ other = OtherOff

\* self._extract_balanced_parens(text)
ExtractParens ==
    /\ par.pc = "text"
    /\ par' = [par EXCEPT !.pc = "extracted", !.result = extract_balanced_parens(par.text)]
    /\ UNCHANGED <<session, hpc, reqs, objs, verdict, rep, ren, other>>

\* the controller parses controller_output (lines 262-284)
ParseReply ==
    /\ par.pc = "reply"
    /\ par' = [par EXCEPT !.pc = "parsed", !.out = parse_reply(par.text)]
    /\ UNCHANGED <<session, hpc, reqs, objs, verdict, rep, ren, other>>

\* and returns an action (lines 278-289), the history being empty
ControllerReturns ==
    /\ par.pc = "parsed"
    /\ par' = [par EXCEPT !.pc = "returned",
                          !.returned = Some(controller(TRUE, << >>, par.out))]
    /\ UNCHANGED <<session, hpc, reqs, objs, verdict, rep, ren, other>>

NextParse == ExtractParens \/ ParseReply \/ ControllerReturns

SpecParse == InitParse /\ [][NextParse]_vars

-----------------------------------------------------------------------------
(* The renderings on their own: to_string of one action,                    *)
(* get_action_history of a history, results_as_table of a query result.     *)

MaxHistLen == 12
MaxRowCount == 15

\* the i-th action of a history, after execute_action (observed) or before
Executed(i, kind, observed) ==
    [ActionRecord("thought " \o ToString(i), kind, A_RM_TEMP)
        EXCEPT !.observation = IF observed THEN <<"observation " \o ToString(i)>> ELSE None]

\* n executed actions of kind rest, the p-th one of kind kind
HistoryOf(n, kind, p, rest) ==
    [i \in 1..n |-> Executed(i, IF i = p THEN kind ELSE rest, TRUE)]

RenderHistories ==
    { HistoryOf(x[1], x[2], x[3], x[4]) :
        x \in (0..MaxHistLen) \X POSSIBLE_ACTIONS \X (1..MaxHistLen) \X POSSIBLE_ACTIONS }

\* the values of last_n: the default, a shorter window and none
RenderWindows == {0, 3, LAST_N}

\* n result rows
RowsOf(n) == [i \in 1..n |-> "row " \o ToString(i)]
TableLimits == {1, 2, 3, MAX_ROWS}

RenderInputs ==
    { [pc |-> "action", action |-> Executed(1, kind, observed),
       include_observation |-> inc, text |-> None] :
        kind \in POSSIBLE_ACTIONS, observed \in BOOLEAN, inc \in BOOLEAN }
    \cup
    { [pc |-> "history", acts |-> acts, last_n |-> last_n,
       include_observation |-> inc, text |-> None] :
        acts \in RenderHistories, last_n \in RenderWindows, inc \in BOOLEAN }
    \cup
    { [pc |-> "table",
       q |-> WithResult(Q_ALL, <<RowsOf(n), IF n = 0 THEN EMPTY_RESULT ELSE SUCCESS>>),
       max_rows |-> max_rows, text |-> None] :
        n \in 0..MaxRowCount, max_rows \in TableLimits }

InitRender ==
    /\ graph = "none"
    /\ CHAINLITE_AVAILABLE = FALSE
    /\ llm = "unused"
    /\ pc = "off"
    /\ actions = << >>
    /\ generated_sparqls = << >>
    /\ final_sparql = None
    /\ controllerCalls = 0
    /\ executeCalls = 0
    /\ proposed = None
    /\ flagged = FALSE
    /\ surprises = 0
    /\ consulted = None
    /\ happened = None
    /\ hpc = "off"
    /\ reqs = << >>
    /\ objs = << >>
    /\ verdict = None
    /\ rep = RepOff
    /\ par = ParOff
    /\ ren \in RenderInputs
    /\ other = OtherOff

\* action.to_string(include_observation=...)
ToStringAction ==
    /\ ren.pc = "action"
    /\ ren' = [ren EXCEPT !.pc = "rendered action",
                          !.text = Some(to_string(ren.action, ren.include_observation))]
    /\ UNCHANGED <<session, hpc, reqs, objs, verdict, rep, par, other>>

\* state.get_action_history(last_n=..., include_observation=...)
GetActionHistory ==
    /\ ren.pc = "history"
    /\ ren' = [ren EXCEPT !.pc = "rendered history",
                          !.text = Some(get_action_history(ren.acts, ren.last_n,
                                                            ren.include_observation))]
    /\ UNCHANGED <<session, hpc, reqs, objs, verdict, rep, par, other>>

\* sparql_query.results_as_table(max_rows=...)
ResultsAsTable ==
    /\ ren.pc = "table"
    /\ ren' = [ren EXCEPT !.pc = "rendered table",
                          !.text = Some(results_as_table(ren.q, ren.max_rows))]
    /\ UNCHANGED <<session, hpc, reqs, objs, verdict, rep, par, other>>

NextRender == ToStringAction \/ GetActionHistory \/ ResultsAsTable

SpecRender == InitRender /\ [][NextRender]_vars

-----------------------------------------------------------------------------
(* Two calls of run() on the same agent and graph, their steps interleaved. *)
(* Python lists are objects: other.lists holds the list objects there are,  *)
(* and an AgentState holds references to (indices of) its two lists.  Each  *)
(* session also carries alone: the AgentState, as a value, that the same    *)
(* replies and collaborator outcomes give a session that runs by itself.    *)
(* other.cache is the memory of functools.lru_cache on search_brick and     *)
(* get_brick_entity, which all sessions of the process share.               *)

\* field(default_factory=list), lines 134-135: the reference of a new list object
ReusedList(store) == IF store = << >> THEN 1 ELSE Len(store)
default_factory_list(store) == Len(store) + 1

\* the store with the list object at ref in it: a new object is empty
WithList(store, ref) == IF ref > Len(store) THEN Append(store, << >>) ELSE store

\* @lru_cache(maxsize=1000) of brick_utils.py (lines 191 and 247): a call
\* that returns is remembered under its argument, and the next call with this
\* argument gets the same object without the function being run
CACHED == {"search_brick", "get_brick_entity"}
CacheKey(action) == <<action.action_name, action.action_argument>>
IsCached(cache, action) ==
    action.action_name \in CACHED /\ CacheKey(action) \in DOMAIN cache
through_cache(cache, action, w) ==
    IF IsCached(cache, action) THEN cache[CacheKey(action)] ELSE w
cache_after(cache, action, w) ==
    IF action.action_name \in CACHED /\ ~IsCached(cache, action) /\ w.fail # "collab"
    THEN [k \in DOMAIN cache \cup {CacheKey(action)} |->
            IF k = CacheKey(action) THEN w ELSE cache[k]]
    ELSE cache

\* one iteration of the while loop of run() on an AgentState value (513-537)
run_iteration(st, avail, out, g, w) ==
    LET candidate == controller(avail, st.actions, out)
        action == IF is_duplicate_action(st.actions, candidate)
                  THEN DuplicateStop ELSE candidate
        r == execute_action(action, g, w)
    IN  IF r.raised THEN st
        ELSE [st EXCEPT
                !.actions = Append(@, r.action),
                !.generated_sparqls =
                    IF r.sparql_query # None THEN Append(@, r.sparql_query[1]) ELSE @]

NoState == [actions |-> << >>, generated_sparqls |-> << >>, final_sparql |-> None]

Questions == <<"first question", "second question">>

InitTwo ==
    /\ graph \in {"none", "loaded"}
    /\ CHAINLITE_AVAILABLE \in BOOLEAN
    /\ llm = (IF CHAINLITE_AVAILABLE THEN "same" ELSE "unused")
    /\ pc = "off"
    /\ actions = << >>
    /\ generated_sparqls = << >>
    /\ final_sparql = None
    /\ controllerCalls = 0
    /\ executeCalls = 0
    /\ proposed = None
    /\ flagged = FALSE
    /\ surprises = 0
    /\ consulted = None
    /\ happened = None
    /\ hpc = "off"
    /\ reqs = << >>
    /\ objs = << >>
    /\ verdict = None
    /\ rep = RepOff
    /\ par = ParOff
    /\ ren = RenOff
    /\ other = [pc |-> "two",
                cache |-> [k \in {} |-> NoCollaborator],
                lists |-> [actions |-> << >>, sparqls |-> << >>],
                sess |-> [i \in {1, 2} |->
                            [pc |-> "idle", question |-> Questions[i], actions |-> 0,
                             generated_sparqls |-> 0, final_sparql |-> None,
                             alone |-> NoState]]]

\* run(question) is called: state = AgentState(question=question) (line 506)
TwoRun(i) ==
    /\ other.pc = "two"
    /\ other.sess[i].pc = "idle"
    /\ \E a \in {default_factory_list(other.lists.actions)} :
       \E q \in {default_factory_list(other.lists.sparqls)} :
         other' = [other EXCEPT
                     !.lists.actions = WithList(@, a),
                     !.lists.sparqls = WithList(@, q),
                     !.sess[i].pc = "loop",
                     !.sess[i].actions = a,
                     !.sess[i].generated_sparqls = q,
                     !.sess[i].final_sparql = None,
                     !.sess[i].alone = NoState]
    /\ UNCHANGED <<session, hpc, reqs, objs, verdict, pure>>

\* one iteration of the while loop of session i (lines 513-542)
TwoLoopIteration(i) ==
    /\ other.pc = "two"
    /\ other.sess[i].pc = "loop"
    /\ \E acts \in {other.lists.actions[other.sess[i].actions]} :
         /\ ~should_stop(acts)
         /\ \E out \in LLMChoices(CHAINLITE_AVAILABLE, llm, Len(acts)) :
            \E candidate \in {controller(CHAINLITE_AVAILABLE, acts, out)} :
            \E action \in {IF is_duplicate_action(acts, candidate)
                            THEN DuplicateStop ELSE candidate} :
            \E answer \in OutcomesOf(action, graph) :
            \E w \in {through_cache(other.cache, action, answer)} :
            \E cost \in {(IF LLMIsRoutine(CHAINLITE_AVAILABLE, llm, Len(acts), out)
                          THEN 0 ELSE 1)
                         + (IF IsNominal(action.action_name, w, graph) THEN 0 ELSE 1)} :
            \E r \in {execute_action(action, graph, w)} :
            \E alone \in {run_iteration(other.sess[i].alone, CHAINLITE_AVAILABLE,
                                        out, graph, w)} :
              /\ surprises + cost <= MaxSurprises
              /\ surprises' = surprises + cost
              /\ ~r.raised
              /\ other' = [other EXCEPT
                    !.cache = cache_after(@, action, w),
                    !.lists.actions[other.sess[i].actions] = Append(@, r.action),
                    !.lists.sparqls[other.sess[i].generated_sparqls] =
                        IF r.sparql_query # None THEN Append(@, r.sparql_query[1]) ELSE @,
                    !.sess[i].alone = alone]
    /\ UNCHANGED <<graph, CHAINLITE_AVAILABLE, llm, pc, actions, generated_sparqls,
                   final_sparql, controllerCalls, executeCalls, proposed, flagged,
                   consulted, happened, hpc, reqs, objs, verdict, pure>>

\* the loop of session i has ended (lines 544-556)
TwoLoopExit(i) ==
    /\ other.pc = "two"
    /\ other.sess[i].pc = "loop"
    /\ should_stop(other.lists.actions[other.sess[i].actions])
    /\ other' = [other EXCEPT
          !.sess[i].pc = "done",
          !.sess[i].final_sparql =
              final_of(other.lists.sparqls[other.sess[i].generated_sparqls], @),
          !.sess[i].alone.final_sparql =
              final_of(other.sess[i].alone.generated_sparqls, @)]
    /\ UNCHANGED <<session, hpc, reqs, objs, verdict, pure>>

NextTwo == \E i \in {1, 2} : TwoRun(i) \/ TwoLoopIteration(i) \/ TwoLoopExit(i)

SpecTwo == InitTwo /\ [][NextTwo]_vars

-----------------------------------------------------------------------------
(* BrickGraph (brick_utils.py, lines 49-134) on its own: two handles are    *)
(* built with BrickGraph(), and each is initialized and loaded.  A graph is *)
(* the set of the sources whose triples it holds.                           *)
(*   other.instance : the class attribute BrickGraph._instance (optional)   *)
(*   other.objects  : the BrickGraph objects there are, each with its       *)
(*                    attribute _graph (optional)                           *)
(*   other.handles  : what the two calls of BrickGraph() returned (0: not   *)
(*                    called yet)                                           *)
(*   other.given    : the sources the caller put in through each handle     *)

TtlFiles == {"a.ttl", "b.ttl"}
CsvFiles == {"a.csv", "b.csv"}

\* BrickGraph.__new__ (lines 57-60): the one object of the class
BrickGraph_new(instance, objects) ==
    IF instance = None
    THEN [instance |-> Some(Len(objects) + 1),
          objects |-> Append(objects, [_graph |-> None]),
          result |-> Len(objects) + 1]
    ELSE [instance |-> instance, objects |-> objects, result |-> instance[1]]

\* BrickGraph.initialize(ttl_file=...) (lines 62-87) on the object self
BrickGraph_initialize(self, ttl_file) ==
    IF self._graph # None THEN self                    \* "already initialized. Skipping."
    ELSE [self EXCEPT !._graph = Some({ttl_file})]

\* BrickGraph.add_timeseries_data(csv_file) (lines 95-134); on an object
\* without graph, self._graph.add raises and nothing is added
BrickGraph_add_timeseries_data(self, csv_file) ==
    IF self._graph = None THEN self
    ELSE [self EXCEPT !._graph = Some(@[1] \cup {csv_file})]

InitGraphs ==
    /\ graph = "none"
    /\ CHAINLITE_AVAILABLE = FALSE
    /\ llm = "unused"
    /\ pc = "off"
    /\ actions = << >>
    /\ generated_sparqls = << >>
    /\ final_sparql = None
    /\ controllerCalls = 0
    /\ executeCalls = 0
    /\ proposed = None
    /\ flagged = FALSE
    /\ surprises = 0
    /\ consulted = None
    /\ happened = None
    /\ hpc = "off"
    /\ reqs = << >>
    /\ objs = << >>
    /\ verdict = None
    /\ rep = RepOff
    /\ par = ParOff
    /\ ren = RenOff
    /\ other = [pc |-> "graphs", instance |-> None, objects |-> << >>,
                handles |-> <<0, 0>>, given |-> <<{}, {}>>]

\* handle h = BrickGraph() (as in BrickAgent.__init__, line 180)
NewHandle(h) ==
    /\ other.pc = "graphs"
    /\ other.handles[h] = 0
    /\ \E made \in {BrickGraph_new(other.instance, other.objects)} :
         other' = [other EXCEPT !.instance = made.instance,
                                !.objects = made.objects,
                                !.handles[h] = made.result]
    /\ UNCHANGED <<session, hpc, reqs, objs, verdict, pure>>

\* handle h: initialize(ttl_file=f) (BrickAgent.initialize_graph, line 197)
InitializeHandle(h) ==
    /\ other.pc = "graphs"
    /\ other.handles[h] # 0
    /\ other.given[h] = {}
    /\ \E f \in TtlFiles :
         other' = [other EXCEPT
                     !.objects[other.handles[h]] = BrickGraph_initialize(@, f),
                     !.given[h] = {f}]
    /\ UNCHANGED <<session, hpc, reqs, objs, verdict, pure>>

\* handle h: add_timeseries_data(f) (BrickAgent.initialize_graph, lines 199-200)
LoadIntoHandle(h) ==
    /\ other.pc = "graphs"
    /\ other.handles[h] # 0
    /\ other.given[h] # {}
    /\ \E f \in CsvFiles :
         other' = [other EXCEPT
                     !.objects[other.handles[h]] = BrickGraph_add_timeseries_data(@, f),
                     !.given[h] = @ \cup {f}]
    /\ UNCHANGED <<session, hpc, reqs, objs, verdict, pure>>

NextGraphs == \E h \in {1, 2} : NewHandle(h) \/ InitializeHandle(h) \/ LoadIntoHandle(h)

SpecGraphs == InitGraphs /\ [][NextGraphs]_vars

-----------------------------------------------------------------------------
(* Properties.                                                              *)

LastAction == actions[Len(actions)]
EndsWithStop == actions # << >> /\ LastAction.action_name = "stop"
\* the history before the last iteration appended to it
HistoryBefore == IF pc = "raised" THEN actions ELSE SubSeq(actions, 1, Len(actions) - 1)
QueryActionIndices == { i \in DOMAIN actions : actions[i].action_name = "execute_sparql" }
IsErrorObservation(a) ==
    a.observation # None /\ a.observation[1] = "Error executing action: "

\* C1: whatever the decision-maker proposes or fails to propose and whatever the
\* collaborators do, run() returns once called, and when it has returned either
\* the last action of the history is a stop or the history holds exactly
\* max_iterations actions.
C1_RunTerminates ==
    /\ (pc = "loop") ~> (pc = "done")
    /\ [](pc = "done" => (EndsWithStop \/ Len(actions) = max_iterations))

\* a session with off-routine events that ended at the budget, not by a stop
C1_Witness ==
    /\ pc = "done"
    /\ Len(actions) = max_iterations
    /\ ~EndsWithStop
    /\ surprises > 0
    /\ \E i \in DOMAIN actions : IsErrorObservation(actions[i])

\* C2: with a decision-maker that returns the same search action at every step
\* run() returns, within max_iterations steps, and its last action is the stop
\* that the driver substituted for the flagged duplicate.
C2_SameSearchEndsByDuplicateStop ==
    /\ (llm = "same" /\ pc = "loop") ~> (pc = "done")
    /\ [](llm = "same" /\ pc = "done" =>
            /\ Len(actions) <= max_iterations
            /\ flagged
            /\ LastAction.action_name = "stop"
            /\ LastAction.thought = "Detected duplicate action, stopping"
            /\ \A i \in 1..(Len(actions) - 1) :
                  /\ actions[i].action_name = "search_brick"
                  /\ actions[i].action_argument = A_TEMPERATURE)

\* the same search was proposed twice: executed once, then replaced by the stop
C2_Witness ==
    /\ llm = "same"
    /\ pc = "done"
    /\ Len(actions) = 2
    /\ actions[1].action_name = "search_brick"
    /\ proposed = Some(ActionRecord("llm thought", "search_brick", A_TEMPERATURE))
    /\ LastAction.action_name = "stop"

\* C3: the history never holds more than max_iterations actions.
C3_HistoryWithinBudget == Len(actions) <= max_iterations

\* the budget is reached while the loop is still to test it
C3_Witness == pc = "loop" /\ Len(actions) = max_iterations /\ ~EndsWithStop

\* C4: once the last action is a stop, or the history holds max_iterations
\* actions, no step calls the controller or appends an action; a stop occurs
\* only as the last element of a history.
C4_TerminalStatesAbsorbing ==
    /\ [][ (EndsWithStop \/ Len(actions) = max_iterations) =>
              (actions' = actions /\ controllerCalls' = controllerCalls) ]_vars
    /\ [](\A i \in DOMAIN actions : actions[i].action_name = "stop" => i = Len(actions))

\* a session that a stop ended before the budget, returned, one controller call
\* per action
C4_Witness ==
    /\ pc = "done"
    /\ EndsWithStop
    /\ Len(actions) < max_iterations
    /\ Len(actions) > 1
    /\ controllerCalls = Len(actions)

\* C5: the answer of is_duplicate_action for the controller's candidate is true
\* iff the candidate has the action name and the argument of one of the last
\* five actions of the history it was checked against.
C5_DuplicateIffInLastFive ==
    proposed # None =>
        (flagged <=>
            \E k \in DOMAIN HistoryBefore :
                /\ Len(HistoryBefore) - k < 5
                /\ HistoryBefore[k].action_name = proposed[1].action_name
                /\ HistoryBefore[k].action_argument = proposed[1].action_argument)

\* a history of six pairwise different actions, the candidate equal to the first
\* of them, not flagged
C5_Witness ==
    /\ pc = "loop"
    /\ Len(actions) = 7
    /\ proposed # None
    /\ ~flagged
    /\ proposed[1].action_name = actions[1].action_name
    /\ proposed[1].action_argument = actions[1].action_argument
    /\ \A i, j \in 1..6 :
          i # j => ~(/\ actions[i].action_name = actions[j].action_name
                     /\ actions[i].action_argument = actions[j].action_argument)

\* C6: two actions compare equal iff their action names are the same string and
\* their arguments are the same text, character by character; thought,
\* observation and observation_raw play no part.
C6_EqualIffNameAndArgument ==
    verdict # None =>
        (verdict[1] <=>
            /\ reqs[1].action_name = reqs[2].action_name
            /\ Len(reqs[1].action_argument) = Len(reqs[2].action_argument)
            /\ \A i \in DOMAIN reqs[1].action_argument :
                  reqs[1].action_argument[i] = reqs[2].action_argument[i])

\* an executed action, observation filled, equal to a fresh one with another thought
C6_Witness ==
    /\ verdict = Some(TRUE)
    /\ objs[1][1].observation # None
    /\ objs[1][1].observation_raw # None
    /\ objs[2][1].observation = None
    /\ objs[1][1].thought # objs[2][1].thought

\* C7: building an action fails iff its action name is not one of the five
\* names; with one of the five it succeeds and keeps thought and argument, for
\* every thought and argument.
C7_CreateFailsIffUnknownName ==
    hpc \in {"built", "executed", "compared"} =>
        \A i \in {1, 2} :
            /\ objs[i] = None <=>
                 reqs[i].action_name \notin
                    {"search_brick", "get_brick_entity", "get_property_examples",
                     "execute_sparql", "stop"}
            /\ objs[i] # None =>
                 /\ objs[i][1].action_name = reqs[i].action_name
                 /\ objs[i][1].action_argument = reqs[i].action_argument
                 /\ objs[i][1].thought = reqs[i].thought

\* one construction refused, the other accepted with the empty argument
C7_Witness ==
    /\ hpc = "built"
    /\ objs[1] = None
    /\ reqs[1].action_name = "SEARCH_BRICK"
    /\ objs[2] # None
    /\ objs[2][1].action_argument = << >>
    /\ objs[2][1].action_name = "execute_sparql"

\* C8: final_sparql is None until the loop has ended; when run() has returned it
\* is the last entry of generated_sparqls if there is one, whatever its status,
\* and None otherwise.
C8_FinalIsLastQuery ==
    /\ pc # "done" => final_sparql = None
    /\ pc = "done" =>
          IF generated_sparqls = << >> THEN final_sparql = None
          ELSE final_sparql = Some(generated_sparqls[Len(generated_sparqls)])

\* returned with an earlier query that succeeded and a last one that failed
C8_Witness ==
    /\ pc = "done"
    /\ Len(generated_sparqls) >= 2
    /\ generated_sparqls[1].execution_status = SUCCESS
    /\ generated_sparqls[Len(generated_sparqls)].execution_status = SYNTAX_ERROR
    /\ final_sparql # None
    /\ final_sparql[1].execution_status = SYNTAX_ERROR

\* C9 (as claimed): generated_sparqls holds one entry per execute_sparql action
\* of the history, the i-th entry being the query of the i-th such action.
C9_OneResultPerQueryAction ==
    /\ Len(generated_sparqls) = Cardinality(QueryActionIndices)
    /\ \A i \in QueryActionIndices :
          LET k == Cardinality({ j \in QueryActionIndices : j <= i })
          IN  k <= Len(generated_sparqls) =>
                 actions[i].observation_raw =
                    Some(Payload("sparql_query", << >>, Some(generated_sparqls[k])))

\* C10: execute_action never raises: run() is never ended by an exception, and
\* every call of execute_action is followed by the append of its action.
C10_ExecuteNeverRaises ==
    /\ pc # "raised"
    /\ executeCalls = Len(actions)

\* an observation formatter failed inside execute_action and the loop went on
C10_Witness ==
    /\ pc = "loop"
    /\ \E i \in DOMAIN actions :
          /\ i < Len(actions)
          /\ actions[i].observation = <<"Error executing action: ", "TypeError">>
          /\ actions[i].action_name = "execute_sparql"

\* C11 (as claimed): an action whose observation is "Error executing action:
\* <message>" has no observation_raw, whatever its action name and wherever the
\* exception was raised.
C11_ErrorObservationHasNoPayload ==
    \A i \in DOMAIN actions :
        IsErrorObservation(actions[i]) => actions[i].observation_raw = None

\* C12: a step adds to generated_sparqls only when the action it appends is an
\* execute_sparql action; search_brick, get_brick_entity, get_property_examples
\* and stop actions, run or cut short, never add a query.
C12_OnlyQueryActionsYieldQueries ==
    /\ [][ generated_sparqls' # generated_sparqls =>
              /\ Len(actions') = Len(actions) + 1
              /\ actions'[Len(actions')].action_name = "execute_sparql"
              /\ Len(generated_sparqls') = Len(generated_sparqls) + 1 ]_vars
    /\ [](Len(generated_sparqls) <= Cardinality(QueryActionIndices))

\* a finished session with a lookup that succeeded, a lookup that was cut short,
\* a stop, and one query from its single execute_sparql action
C12_Witness ==
    /\ pc = "done"
    /\ EndsWithStop
    /\ Len(generated_sparqls) = 1
    /\ Cardinality(QueryActionIndices) = 1
    /\ \E i \in DOMAIN actions :
          /\ actions[i].action_name \in {"search_brick", "get_brick_entity"}
          /\ IsErrorObservation(actions[i])
    /\ \E i \in DOMAIN actions :
          /\ actions[i].action_name \in {"search_brick", "get_property_examples"}
          /\ actions[i].observation_raw # None
          /\ ~IsErrorObservation(actions[i])

\* the text _validate_and_fix_sparql is to give for the queries proposed here
ExpectedRepair(arg) ==
    IF arg = Q_LATEST THEN Q_LATEST \o T_LIMIT_1
    ELSE IF arg = Q_ALL THEN Q_ALL \o T_LIMIT_10
    ELSE arg

\* C17: the BrickSparqlQuery of an execute_sparql action, which execute() sends
\* to the graph and which generated_sparqls keeps, carries the repaired text,
\* while the action of the history keeps the argument as the controller gave it.
C17_RepairedTextExecutedOriginalKept ==
    /\ \A i \in QueryActionIndices :
          /\ actions[i].action_argument \in QueryTexts
          /\ actions[i].observation_raw # None =>
                actions[i].observation_raw[1].query[1].sparql =
                    ExpectedRepair(actions[i].action_argument)
    /\ \A k \in DOMAIN generated_sparqls :
          \E i \in QueryActionIndices :
              generated_sparqls[k].sparql = ExpectedRepair(actions[i].action_argument)
    /\ (pc = "loop" /\ proposed # None /\ ~flagged) =>
          LastAction.action_argument = proposed[1].action_argument

\* a query that the repair changed was executed: the stored text has the limit
\* of 1, the action of the history has not
C17_Witness ==
    /\ generated_sparqls # << >>
    /\ generated_sparqls[1].sparql = Q_LATEST \o T_LIMIT_1
    /\ generated_sparqls[1].execution_status = SUCCESS
    /\ \E i \in QueryActionIndices : actions[i].action_argument = Q_LATEST

EndsWith(s, suffix) ==
    /\ Len(s) >= Len(suffix)
    /\ SubSeq(s, Len(s) - Len(suffix) + 1, Len(s)) = suffix
\* number of places of s where the text lit stands
CountOf(s, lit) ==
    Cardinality({ i \in 1..(Len(s) - Len(lit) + 1) : SubSeq(s, i, i + Len(lit) - 1) = lit })
Repaired == rep.pc \in {"once", "twice"}

\* C13 (as claimed): repairing a repaired text changes nothing.
C13_RepairIdempotent ==
    rep.pc = "twice" => rep.twice = rep.once

\* C14: a query with ORDER BY DESC and no LIMIT is given " LIMIT 1", and that is
\* the only limit it is given; "SELECT ?v WHERE { ?s ?p ?v } ORDER BY DESC(?v)"
\* becomes that text followed by " LIMIT 1".
C14_DescendingGetsLimitOne ==
    (Repaired /\ rep.func \in {T_DESC, T_DESC_LOWER} /\ rep.tail = << >>) =>
        /\ EndsWith(rep.once[1], T_LIMIT_1)
        /\ CountOf(rep.once[1], T_LIMIT) = 1
        /\ rep.text = Q_LATEST =>
             /\ rep.once[1] = Q_LATEST \o T_LIMIT_1
             /\ EndsWith(rep.once[1], R_ORDER_BY \o T_DESC \o <<"(","?","v",")">> \o T_LIMIT_1)

C14_Witness ==
    /\ rep.pc = "once"
    /\ rep.text = Q_LATEST
    /\ EndsWith(rep.once[1], <<")"," ","L","I","M","I","T"," ","1">>)

\* C15: a query with no LIMIT and no ORDER BY DESC (no ordering at all, or
\* ORDER BY ASC) is given " LIMIT 10" and no other limit;
\* "SELECT ?v WHERE { ?s ?p ?v }" becomes that text followed by " LIMIT 10".
C15_UnlimitedGetsLimitTen ==
    (Repaired /\ rep.func \in {<< >>, T_ASC} /\ rep.tail = << >>) =>
        /\ EndsWith(rep.once[1], T_LIMIT_10)
        /\ CountOf(rep.once[1], T_LIMIT) = 1
        /\ rep.text = Q_ALL => rep.once[1] = Q_ALL \o T_LIMIT_10

\* an ascending ordering: the limit given is 10
C15_Witness ==
    /\ rep.pc = "once"
    /\ rep.func = T_ASC
    /\ rep.close = <<")">>
    /\ rep.tail = << >>
    /\ rep.prefix = << >>
    /\ EndsWith(rep.once[1], <<")"," ","L","I","M","I","T"," ","1","0">>)

\* C16: ORDER BY DESC(?name or ORDER BY ASC(?name without its ")" comes out as
\* ORDER BY DESC(?name) / ORDER BY ASC(?name) with the whole name, at the end
\* of the query as well as in front of a LIMIT clause.
C16_UnclosedOrderingClosed ==
    (Repaired /\ rep.func # << >> /\ rep.close = << >>) =>
        rep.once[1] =
            (IF rep.prefix = << >> THEN << >> ELSE R_PREFIX_OK)
            \o Q_ALL \o R_ORDER_BY \o rep.func \o <<"(", "?">> \o rep.name \o <<")">>
            \o (IF rep.tail # << >> THEN Tail(rep.tail)
                ELSE IF rep.func = T_ASC THEN T_LIMIT_10 ELSE T_LIMIT_1)

\* an open call with the longest name, followed by a LIMIT clause
C16_Witness ==
    /\ rep.pc = "once"
    /\ rep.func = T_DESC
    /\ Len(rep.name) = MaxNameLen
    /\ rep.close = << >>
    /\ rep.tail = R_LIMIT_5
    /\ CountOf(rep.once[1], <<"(","?">> \o rep.name \o <<")","L","I","M","I","T">>) = 1

\* nesting depth of text after its first i characters
DepthAfter(text, i) ==
    Cardinality({ j \in 1..i : text[j] = "(" }) - Cardinality({ j \in 1..i : text[j] = ")" })

\* C18: for a text that starts with "(", _extract_balanced_parens gives what
\* stands between that "(" and the first place where the nesting depth is back
\* at zero; it gives None for the empty text, for a text that does not start
\* with "(", and when the depth never comes back to zero.  The controller gets
\* "SELECT ?v WHERE { FILTER(?v > 1) }" out of
\* "Action: execute_sparql(SELECT ?v WHERE { FILTER(?v > 1) })".
C18_BalancedExtraction ==
    /\ par.pc = "extracted" =>
          LET t == par.text
              zeros == { i \in 1..Len(t) : DepthAfter(t, i) = 0 }
          IN  IF t = << >> \/ t[1] # "(" \/ zeros = {}
              THEN par.result = None
              ELSE par.result =
                     Some(SubSeq(t, 2, (CHOOSE i \in zeros : \A k \in zeros : i <= k) - 1))
    /\ (par.pc = "extracted" /\ par.text = E_ARGUMENT_TEXT) => par.result = Some(E_ARGUMENT)
    /\ (par.pc \in {"parsed", "returned"} /\ par.text = REPLY_OK) =>
          /\ par.out.ok
          /\ par.out.action_name = "execute_sparql"
          /\ par.out.action_argument = E_ARGUMENT

\* a nested pair inside the outer one, and text after the closing ")"
C18_Witness ==
    /\ par.pc = "extracted"
    /\ par.text = <<"(", "(", ")", ")", "a">>
    /\ par.result = Some(<<"(", ")">>)

\* C19 (as claimed): when the reply of the service could not be parsed, the
\* step does not append an ordinary executed action to the history.
C19_ParseFailureNotActedOn ==
    (consulted # None /\ ~consulted[1].reply.ok) =>
        ~ /\ Len(actions) = Len(consulted[1].context.items) + 1
          /\ LastAction.action_name \in POSSIBLE_ACTIONS
          /\ LastAction.observation # None

\* C20 (as claimed): what the controller gives the service as history is
\* get_action_history() of the state: at most the last 10 actions, the
\* observations of search_brick and get_brick_entity actions left out except in
\* the final two.
C20_ContextIsWindowedHistory ==
    consulted # None =>
        consulted[1].context.items = get_action_history(HistoryBefore, LAST_N, TRUE).items

-----------------------------------------------------------------------------
\* the line of a rendered action that carries its observation, if any
ObservationLines(rendered) ==
    SelectSeq(rendered, LAMBDA line : line.label = "Observation: ")

\* C21: get_action_history renders the actions of its window (the last last_n
\* actions; the whole history for last_n = 0) in execution order; an action's observation is left out iff the
\* action is not one of the final two of the window and is a search_brick or
\* get_brick_entity action; with include_observation false, every one is.
C21_WindowInOrderMiddleLookupsSuppressed ==
    ren.pc = "rendered history" =>
        LET n == Len(ren.acts)
            before == IF ren.last_n > 0 /\ n > ren.last_n THEN n - ren.last_n ELSE 0
            size == n - before
            lines == ren.text[1].items
        IN  /\ Len(lines) = size
            /\ \A j \in 1..size :
                  LET a == ren.acts[before + j]
                      shown == ObservationLines(lines[j])
                  IN  /\ lines[j][1] = [label |-> "Thought: ", text |-> <<a.thought>>]
                      /\ lines[j][2] = [label |-> "Action: ",
                                        text |-> <<a.action_name, a.action_argument>>]
                      /\ shown \in {<< >>, <<[label |-> "Observation: ",
                                               text |-> a.observation]>>}
                      /\ shown = << >> <=>
                            \/ ~ren.include_observation
                            \/ /\ j <= size - 2
                               /\ a.action_name \in {"search_brick", "get_brick_entity"}

\* a history longer than the window, in which a search in the middle of the
\* window lost its observation and a query next to it kept its own
C21_Witness ==
    /\ ren.pc = "rendered history"
    /\ ren.include_observation
    /\ Len(ren.acts) > ren.last_n
    /\ ren.last_n = LAST_N
    /\ \E j \in 2..(LAST_N - 3) :
          /\ ren.acts[Len(ren.acts) - LAST_N + j].action_name = "search_brick"
          /\ ObservationLines(ren.text[1].items[j]) = << >>
          /\ ren.acts[Len(ren.acts) - LAST_N + j + 1].action_name = "execute_sparql"
          /\ ObservationLines(ren.text[1].items[j + 1]) # << >>

\* C22: to_string gives the thought line and the action line always, and the
\* observation line (third and last) iff include_observation is true and the
\* action has a non-empty observation.
C22_ObservationLineIffAskedAndPresent ==
    ren.pc = "rendered action" =>
        LET t == ren.text[1]
            a == ren.action
        IN  /\ Len(t) \in {2, 3}
            /\ t[1] = [label |-> "Thought: ", text |-> <<a.thought>>]
            /\ t[2] = [label |-> "Action: ", text |-> <<a.action_name, a.action_argument>>]
            /\ Len(t) = 3 => t[3] = [label |-> "Observation: ", text |-> a.observation]
            /\ Len(t) = 3 <=> (ren.include_observation /\ a.observation # None)

\* an observed action rendered without its observation
C22_Witness ==
    /\ ren.pc = "rendered action"
    /\ ~ren.include_observation
    /\ ren.action.observation # None
    /\ Len(ren.text[1]) = 2

\* C29: results_as_table of n rows with limit max_rows shows, after one header
\* line, all n rows if n <= max_rows, and otherwise the first max_rows/2
\* rows, the line "... (n - max_rows rows omitted) ...", and the last
\* max_rows - max_rows/2 rows, and nothing else.
C29_TableHeadOmissionTail ==
    (ren.pc = "rendered table" /\ ren.q.execution_result # << >>) =>
        LET rows == ren.q.execution_result
            n == Len(rows)
            half == ren.max_rows \div 2
            omission == "... (" \o ToString(n - ren.max_rows) \o " rows omitted) ..."
        IN  ren.text[1] =
                IF n <= ren.max_rows THEN <<"header">> \o rows
                ELSE <<"header">> \o SubSeq(rows, 1, half) \o <<omission>>
                     \o SubSeq(rows, n - (ren.max_rows - half) + 1, n)

\* C23: without the prediction service (the mock controller), when run() has
\* returned, the history is search_brick("temperature"),
\* get_brick_entity("RM_TEMP"), execute_sparql(... LIMIT 10), stop, in this
\* order, generated_sparqls holds one query and final_sparql is that query.
C23_MockSessionFourActionsOneResult ==
    (~CHAINLITE_AVAILABLE /\ pc = "done") =>
        /\ [i \in 1..Len(actions) |-> <<actions[i].action_name, actions[i].action_argument>>]
              = << <<"search_brick", A_TEMPERATURE>>, <<"get_brick_entity", A_RM_TEMP>>,
                   <<"execute_sparql", Q_MOCK>>, <<"stop", << >> >> >>
        /\ Len(generated_sparqls) = 1
        /\ final_sparql = Some(generated_sparqls[1])

\* C24: run() never retries.  Every step that calls the controller or
\* execute_action, or changes the history, calls each of them once and appends
\* one action to the history; and an action whose execution failed does not
\* end the loop: the loop is left after it only when the budget is used up.
C24_OneCallOneAppendNoRetry ==
    [][ /\ (\/ controllerCalls' # controllerCalls
            \/ executeCalls' # executeCalls
            \/ actions' # actions)
           => /\ controllerCalls' = controllerCalls + 1
              /\ executeCalls' = executeCalls + 1
              /\ Len(actions') = Len(actions) + 1
              /\ SubSeq(actions', 1, Len(actions)) = actions
              /\ actions'[Len(actions')].observation # None
        /\ (pc = "loop" /\ pc' = "done" /\ actions # << >> /\ IsErrorObservation(LastAction))
           => Len(actions) >= max_iterations
      ]_vars

\* the first action failed (the graph was never initialized), it is in the
\* history with its failure observation, and the loop has gone on after it
C24_Witness ==
    /\ pc = "loop"
    /\ graph = "none"
    /\ Len(actions) >= 2
    /\ actions[1].action_name = "search_brick"
    /\ actions[1].observation = <<"Error executing action: ", "RuntimeError">>
    /\ controllerCalls = Len(actions)
    /\ executeCalls = Len(actions)

\* a sequence that begins with all of another
IsPrefixOf(old, new) == Len(old) <= Len(new) /\ SubSeq(new, 1, Len(old)) = old

\* C25: the history and the list of executed queries only grow at the end, and
\* what they hold never changes: in every step of a session the old actions
\* (name, argument, observation, observation_raw) are the first actions of the
\* new history, and the old generated_sparqls the first of the new ones.
C25_HistoryAppendOnlyEntriesFrozen ==
    [][ /\ IsPrefixOf(actions, actions')
        /\ IsPrefixOf(generated_sparqls, generated_sparqls')
        /\ final_sparql # None => final_sparql' = final_sparql
      ]_vars

\* a finished session whose history holds several executed actions and queries
C25_Witness ==
    /\ pc = "done"
    /\ Len(actions) >= 5
    /\ Len(generated_sparqls) >= 2
    /\ \A i \in DOMAIN actions : actions[i].observation # None
    /\ final_sparql = Some(generated_sparqls[Len(generated_sparqls)])

\* the queries that were executed: those run() stored and those the actions
\* carry as observation_raw
ExecutedQueries ==
    Range(generated_sparqls)
    \cup { actions[i].observation_raw[1].query[1] :
             i \in { j \in DOMAIN actions :
                       /\ actions[j].observation_raw # None
                       /\ actions[j].observation_raw[1].kind = "sparql_query" } }

\* C26: an executed query has status success iff it has rows; without rows its
\* status is empty_result when graph.query returned, and syntax_error, timed_out
\* or other_error when it failed; success without rows does not occur.
C26_SuccessIffRows ==
    \A q \in ExecutedQueries :
        /\ q.execution_status \in {SUCCESS, EMPTY_RESULT, SYNTAX_ERROR, TIMED_OUT, OTHER_ERROR}
        /\ q.execution_status = SUCCESS <=> q.execution_result # << >>

\* graph.query returned a row without any bound variable: empty_result; and
\* another query of the session failed, and a third one had rows
C26_Witness ==
    /\ \E q \in ExecutedQueries : q.execution_status = EMPTY_RESULT /\ graph = "loaded"
    /\ \E q \in ExecutedQueries : q.execution_status = SUCCESS
    /\ \E q \in ExecutedQueries :
          q.execution_status \in {SYNTAX_ERROR, TIMED_OUT, OTHER_ERROR}

\* C27 (as claimed): when the graph store was asked and failed, or gave no row
\* with a bound variable, the execute_sparql action gets the observation
\* "Query returned no results. Status: <status>", not "Error executing
\* action: ...", and its query, carrying that status, is appended to
\* generated_sparqls.
C27_StoreFailureIsAValue ==
    (/\ pc \in {"loop", "done"}
     /\ actions # << >>
     /\ LastAction.action_name = "execute_sparql"
     /\ happened # None
     /\ happened[1].fail # "repair"
     /\ \/ graph = "none"
        \/ happened[1].error # "none"
        \/ BoundRows(happened[1].items) = << >>)
    => /\ ~IsErrorObservation(LastAction)
       /\ generated_sparqls # << >>
       /\ LET q == generated_sparqls[Len(generated_sparqls)]
          IN  /\ q.sparql = ExpectedRepair(LastAction.action_argument)
              /\ q.execution_status \in {EMPTY_RESULT, SYNTAX_ERROR, TIMED_OUT, OTHER_ERROR}
              /\ LastAction.observation =
                    <<"Query returned no results. Status: ", q.execution_status>>
              /\ LastAction.observation_raw = Some(Payload("sparql_query", << >>, Some(q)))

\* C28: every action of the history, and every action the controller returns,
\* has one of the five names of POSSIBLE_ACTIONS, whatever name the reply of
\* the prediction service holds, and run() is not ended by an exception.
C28_OnlyKnownKindsInHistory ==
    /\ \A i \in DOMAIN actions : actions[i].action_name \in POSSIBLE_ACTIONS
    /\ proposed # None => proposed[1].action_name \in POSSIBLE_ACTIONS
    /\ pc # "raised"

\* the reply named delete_graph; the action executed and appended is another
C28_Witness ==
    /\ pc = "loop"
    /\ consulted # None
    /\ consulted[1].reply.ok
    /\ consulted[1].reply.action_name = "delete_graph"
    /\ Len(actions) = Len(consulted[1].context.items) + 1
    /\ LastAction.action_name \in POSSIBLE_ACTIONS
    /\ LastAction.observation # None

\* C30: with the steps of two sessions interleaved on one agent and one graph,
\* the actions, the generated_sparqls and the final_sparql of each session are
\* those of the session run by itself on the same replies and outcomes.
C30_SessionsIndependent ==
    other.pc = "two" =>
        \A i \in {1, 2} :
            LET st == other.sess[i]
            IN  st.pc # "idle" =>
                  /\ other.lists.actions[st.actions] = st.alone.actions
                  /\ other.lists.sparqls[st.generated_sparqls] = st.alone.generated_sparqls
                  /\ st.final_sparql = st.alone.final_sparql

\* both sessions are in their loops, each with a history of its own, and one
\* of them has stored a query the other has not
C30_Witness ==
    /\ other.pc = "two"
    /\ other.sess[1].pc = "loop"
    /\ other.sess[2].pc = "loop"
    /\ Len(other.lists.actions[other.sess[1].actions]) >= 3
    /\ Len(other.lists.actions[other.sess[2].actions]) >= 1
    /\ Len(other.lists.actions[other.sess[2].actions]) < 3
    /\ other.lists.sparqls[other.sess[1].generated_sparqls] # << >>
    /\ other.lists.sparqls[other.sess[2].generated_sparqls] = << >>
    /\ DOMAIN other.cache # {}

\* C31 (as claimed): two handles built separately are independent: each one,
\* once initialized from its own file, holds what was put in through it, the
\* file it was initialized from and the data loaded into it, and nothing that
\* was put in through the other handle.
C31_GraphHandlesIndependent ==
    other.pc = "graphs" =>
        \A h \in {1, 2} :
            (other.handles[h] # 0 /\ other.given[h] # {}) =>
                other.objects[other.handles[h]]._graph = Some(other.given[h])

\* C32 (as claimed): an ordering that is already closed, ORDER BY DESC(?name)
\* or ORDER BY ASC(?name) with or without spaces in front of the ")", for
\* names of every length, comes out of the repair as it went in: the result is
\* the input, or the input followed by the limit the repair adds.
C32_ClosedOrderingUntouched ==
    (Repaired /\ rep.close # << >> /\ rep.prefix # R_PREFIX_BARE) =>
        rep.once[1] \in {rep.text, rep.text \o T_LIMIT_1, rep.text \o T_LIMIT_10}

\* the LIMIT clauses of a text: the places where LIMIT, blanks and digits stand
LimitClauses(s) ==
    Cardinality({ i \in 1..Len(s) :
        /\ MatchLit(s, i, T_LIMIT)
        /\ SkipSpace(s, i + 5) > i + 5
        /\ SkipDigit(s, SkipSpace(s, i + 5)) > SkipSpace(s, i + 5) })

\* C33: the repaired text has as many LIMIT clauses as the text it was made
\* from when that one had at least one, and exactly one otherwise; so does the
\* repair of a repaired text.
C33_LimitClausesKeptOrOne ==
    /\ Repaired =>
          LimitClauses(rep.once[1]) =
              (IF LimitClauses(rep.text) >= 1 THEN LimitClauses(rep.text) ELSE 1)
    /\ rep.pc = "twice" =>
          /\ LimitClauses(rep.once[1]) >= 1
          /\ LimitClauses(rep.twice[1]) = LimitClauses(rep.once[1])

\* a descending ordering without limit has been repaired twice: one limit
C33_Witness ==
    /\ rep.pc = "twice"
    /\ rep.func = T_DESC
    /\ rep.tail = << >>
    /\ LimitClauses(rep.text) = 0
    /\ LimitClauses(rep.twice[1]) = 1

\* C34: in a step whose candidate repeats a recent action, the candidate is
\* neither executed nor appended: no collaborator is called, the one action
\* appended is a stop with empty argument and the observation
\* "Stopping execution", no query is added to generated_sparqls, and the loop
\* is over after that step.
C34_DuplicateBecomesStop ==
    [][ (executeCalls' # executeCalls /\ flagged')
        => /\ Len(actions') = Len(actions) + 1
           /\ SubSeq(actions', 1, Len(actions)) = actions
           /\ is_duplicate_action(actions, proposed'[1])
           /\ actions'[Len(actions')].action_name = "stop"
           /\ actions'[Len(actions')].action_argument = << >>
           /\ actions'[Len(actions')].observation = <<"Stopping execution">>
           /\ actions'[Len(actions')].observation_raw = None
           /\ proposed'[1].action_name # "stop"
           /\ happened' = Some(NoCollaborator)
           /\ generated_sparqls' = generated_sparqls
           /\ should_stop(actions')
           /\ pc' = "loop"
      ]_vars

\* the decision-maker asked for a query the history already holds; the
\* session ended with the stop put in its place, before the budget
C34_Witness ==
    /\ pc = "done"
    /\ flagged
    /\ proposed # None
    /\ proposed[1].action_name = "execute_sparql"
    /\ Len(actions) < max_iterations
    /\ LastAction.thought = "Detected duplicate action, stopping"
    /\ \E i \in 1..(Len(actions) - 1) : BrickAction_eq(actions[i], proposed[1])

\* C35: every action of the history has an observation, and that observation
\* is not the empty text, whether the action succeeded, found nothing, failed,
\* was of an unknown kind or was a stop.
C35_EveryActionObserved ==
    \A i \in DOMAIN actions :
        /\ actions[i].observation # None
        /\ \E k \in DOMAIN actions[i].observation : actions[i].observation[k] # ""

\* a finished session whose history holds a failed action, a query without
\* results and a stop
C35_Witness ==
    /\ pc = "done"
    /\ EndsWithStop
    /\ \E i \in DOMAIN actions : IsErrorObservation(actions[i])
    /\ \E i \in DOMAIN actions :
         actions[i].observation[1] = "Query returned no results. Status: "

\* C36 (as claimed): get_action_history(last_n) renders min(last_n,
\* len(actions)) actions, the most recent ones, for every last_n >= 0 and every
\* history; with last_n = 0 it renders none.
C36_WindowIsLastN ==
    ren.pc = "rendered history" =>
        LET n == Len(ren.acts)
            size == IF ren.last_n < n THEN ren.last_n ELSE n
            lines == ren.text[1].items
        IN  /\ Len(lines) = size
            /\ \A j \in 1..size :
                  lines[j][1] = [label |-> "Thought: ",
                                 text |-> <<ren.acts[n - size + j].thought>>]
            /\ ren.last_n = 0 => lines = << >>

\* the decision-maker's call failed: the service or the parsing failed, or
\* the reply named a kind that BrickAction refuses
ControllerFailed(reply) == ~reply.ok \/ ~post_init_accepts(reply.action_name)

\* the action (name, argument) that stands for a history of n actions
FallbackFor(n) ==
    IF n = 0 THEN <<"search_brick", A_TEMPERATURE>>
    ELSE IF n = 1 THEN <<"get_brick_entity", A_RM_TEMP>>
    ELSE IF n = 2 THEN <<"execute_sparql", Q_MOCK>>
    ELSE <<"stop", << >> >>

\* C37 (as claimed): in a step in which the decision-maker's call failed
\* (transport error, unparsable output, unknown kind), the action used for the
\* step is the one that stands for the length of the history and depends on
\* nothing else: search_brick("temperature") for 0 actions,
\* get_brick_entity("RM_TEMP") for 1, the fixed execute_sparql for 2, stop for
\* 3 or more, so that a failure with 3 or more actions ends the loop.
C37_FallbackActionUsed ==
    [][ (controllerCalls' # controllerCalls /\ consulted' # None
         /\ ControllerFailed(consulted'[1].reply))
        => /\ Len(actions') = Len(actions) + 1
           /\ <<actions'[Len(actions')].action_name,
                actions'[Len(actions')].action_argument>> = FallbackFor(Len(actions))
           /\ Len(actions) >= 3 => should_stop(actions')
      ]_vars

\* C37 (amended): in such a step the candidate the controller yields is the
\* one that stands for the length of the history; the action used is that
\* candidate unless it repeats one of the last DUPLICATE_WINDOW actions, in
\* which case it is the stop that replaces a duplicate; with 3 or more actions
\* the candidate is a stop, it is used, and the loop is over.
C37_FallbackByHistoryLength ==
    [][ (controllerCalls' # controllerCalls /\ consulted' # None
         /\ ControllerFailed(consulted'[1].reply))
        => /\ <<proposed'[1].action_name, proposed'[1].action_argument>>
                = FallbackFor(Len(actions))
           /\ flagged' <=> is_duplicate_action(actions, proposed'[1])
           /\ Len(actions') = Len(actions) + 1
           /\ <<actions'[Len(actions')].action_name,
                actions'[Len(actions')].action_argument>>
                = (IF flagged' THEN <<"stop", << >> >> ELSE FallbackFor(Len(actions)))
           /\ Len(actions) >= 3 =>
                 /\ ~flagged'
                 /\ actions'[Len(actions')].observation = <<"Stopping execution">>
                 /\ should_stop(actions')
      ]_vars

\* the service asked for get_brick_entity("RM_TEMP") and failed at the next
\* step: the fallback's candidate repeated it and a stop was used instead
C37_Witness ==
    /\ Len(actions) = 2
    /\ consulted # None
    /\ ControllerFailed(consulted[1].reply)
    /\ flagged
    /\ proposed = Some(mock_controller(<<actions[1]>>))
    /\ actions[1].thought = "llm thought"
    /\ actions[1].action_name = "get_brick_entity"
    /\ LastAction.action_name = "stop"

\* C38 (as claimed): in a session run while the graph has not been
\* initialized, run() does not raise; every search_brick, get_brick_entity and
\* get_property_examples action has the observation "Error executing
\* action: ..." and no observation_raw; every execute_sparql action has as
\* observation_raw a query with status other_error and no rows, and these
\* queries are, in order, the generated_sparqls; and the loop is left after a
\* stop or with max_iterations actions.
C38_UninitializedGraphSession ==
    graph = "none" =>
        /\ pc # "raised"
        /\ \A i \in DOMAIN actions :
              /\ actions[i].action_name
                    \in {"search_brick", "get_brick_entity", "get_property_examples"}
                 => /\ IsErrorObservation(actions[i])
                    /\ actions[i].observation_raw = None
              /\ actions[i].action_name = "execute_sparql"
                 => /\ actions[i].observation_raw # None
                    /\ actions[i].observation_raw[1].kind = "sparql_query"
                    /\ actions[i].observation_raw[1].query[1].execution_status = OTHER_ERROR
                    /\ actions[i].observation_raw[1].query[1].execution_result = << >>
        /\ Len(generated_sparqls) = Cardinality(QueryActionIndices)
        /\ \A k \in DOMAIN generated_sparqls :
              \E i \in QueryActionIndices :
                  /\ Cardinality({ j \in QueryActionIndices : j <= i }) = k
                  /\ actions[i].observation_raw = 
                        Some(Payload("sparql_query", << >>, Some(generated_sparqls[k])))
        /\ pc = "done" => (EndsWithStop \/ Len(actions) = max_iterations)
====
